---- MODULE Spec2Model ----
(***************************************************************************)
(* Flow engine of tube_planning: Network (dense adjacency matrix), Flow    *)
(* (skew-symmetric matrix with terminals), breadth-first search, path      *)
(* reconstruction, Edmonds-Karp and the multi-terminal reductions          *)
(* maximum_flow / sufficient_flow.                                         *)
(*                                                                         *)
(* Capacities, supplies and demands are integers here.  On integers the    *)
(* absolute-tolerance comparisons of the code (x + _EPS < y, x - y > _EPS, *)
(* isclose(x, 0.0, atol = _EPS)) coincide with the exact comparisons x < y,*)
(* x > y and x = 0, which is how they are written below.  np.allclose      *)
(* keeps its default relative tolerance and is modelled by allclose.       *)
(* The matrices are binary64, which is exact on these integers; the run of *)
(* edmonds_karp on capacities near 2^52 to 2^55, where sums and            *)
(* differences are rounded, is modelled apart (Double, SpecDouble).        *)
(*                                                                         *)
(* The scoring layer that consumes the engine (PerformanceCriteria,        *)
(* CriteriaGroup) is modelled as far as it calls the engine.               *)
(***************************************************************************)
EXTENDS Integers, Sequences, FiniteSets, TLC

(***************************************************************************)
(* Bounds of the explored inputs.                                          *)
(***************************************************************************)
MaxNodes == 3
MaxArcs == 3
MaxCap == 2
MaxIter == 3
MaxTerminals == 2
MaxAmount == 2
MaxOtherArcs == 2
MaxOtherCap == 4
MaxFlowNodes == 2
MaxPathLen == 3
MaxWeight == 2
MaxCriteria == 2
LargeEntry == 200000
MaxCurrentArcs == 2
DoubleNodes == 4
MaxDoubleEdges == 4
MaxEdgeEntries == 2

(***************************************************************************)
(* Values fixed by the code.                                               *)
(***************************************************************************)
\* 1 / rtol for the default rtol = 1e-05 of np.allclose
RelTolInverse == 100000
\* the default of the maxiter parameter
DefaultMaxIter == 1000

(***************************************************************************)
(* Messages of the TubePlanningError raised by the engine.                 *)
(***************************************************************************)
ErrProvideEither == "Provide either adjacency matrix or edge table."
ErrOnlyOne == "Specify only one of adj_mat or edge_table."
ErrEdgeTableEmpty == "Edge table is empty."
ErrEdgeTriple == "Each edge must be a (u, v, weight) triple."
ErrNotSquare == "Adjacency matrix must be square."
ErrNonNegative == "Adjacency matrix must be non-negative."
ErrRootOutOfBounds == "Root node out of bounds."
ErrDestOutOfBounds == "Destination node out of bounds."
ErrUnreachable == "Destination is unreachable from root."
ErrSourceIsSink == "Source and sink must differ."
ErrSourceSinkOutOfBounds == "Source or sink out of bounds."
ErrNotConverged == "Maximum iterations reached without convergence."
ErrNotDisjoint == "Sources and sinks must be disjoint."
ErrNoTerminals == "Provide at least one source and one sink."
ErrSourceIndex == "Source index out of bounds."
ErrSinkIndex == "Sink index out of bounds."
ErrNotProvided == "Sources and sinks must be provided."
ErrNegativeSupply == "Supplies and demands must be non-negative."
ErrInsufficientSupply == "Insufficient total supply to meet demand."
ErrDemandNotMet == "Could not satisfy all demand."
ErrTerminalIndex == "Source or sink index out of bounds."
ErrNotConserving == "Flow does not conserve at intermediate nodes."
ErrShortPath == "Path must contain at least two nodes."
ErrPathIndex == "Path contains invalid node index."
ErrFlowNotSquare == "Flow matrix must be square."
ErrShapesDiffer == "Flow matrix and adjacency matrix shapes differ."
ErrNotSkewSymmetric == "Flow matrix must be skew-symmetric."
ErrExceedsCapacity == "Flow exceeds edge capacity."
\* TubePlanningError() raised without a message
ErrNoMessage == ""
\* the ValueError of the builtin min, which is not a TubePlanningError
ValueErrorEmptyMin == "ValueError: min() arg is an empty sequence"
NoError == "ok"

(***************************************************************************)
(* Matrices: a matrix over n nodes is a function i |-> (j |-> entry) on    *)
(* the node ids 0..n-1.                                                    *)
(***************************************************************************)
NodeIds(n) == 0 .. (n - 1)

n_nodes(matrix) == Cardinality(DOMAIN matrix)

Zeros(n) == [i \in NodeIds(n) |-> [j \in NodeIds(n) |-> 0]]

RECURSIVE SumUpTo(_, _)
\* row[0] + ... + row[k-1]
SumUpTo(row, k) == IF k = 0 THEN 0 ELSE SumUpTo(row, k - 1) + row[k - 1]

RowSum(matrix, i) == SumUpTo(matrix[i], n_nodes(matrix))

ColSum(matrix, j) ==
    SumUpTo([i \in DOMAIN matrix |-> matrix[i][j]], n_nodes(matrix))

MatrixSum(matrix) ==
    SumUpTo([i \in DOMAIN matrix |-> RowSum(matrix, i)], n_nodes(matrix))

MatrixSub(a, b) == [i \in DOMAIN a |-> [j \in DOMAIN a |-> a[i][j] - b[i][j]]]

MatrixAdd(a, b) == [i \in DOMAIN a |-> [j \in DOMAIN a |-> a[i][j] + b[i][j]]]

Abs(x) == IF x < 0 THEN -x ELSE x

\* ndarray.shape of a matrix of rows: << rows, columns >>
shape(matrix) ==
    << Cardinality(DOMAIN matrix),
       IF DOMAIN matrix = {} THEN 0 ELSE Cardinality(DOMAIN matrix[0]) >>

\* np.allclose(a, b, atol = _EPS) on one pair of entries:
\* |a - b| <= _EPS + rtol * |b|, which on integers is a = b or
\* |a - b| <= |b| * rtol rounded down
allclose(a, b) == a = b \/ Abs(a - b) <= Abs(b) \div RelTolInverse

\* matrix[:n, :n]
TopLeft(matrix, n) == [i \in NodeIds(n) |-> [j \in NodeIds(n) |-> matrix[i][j]]]

RECURSIVE SumSeq(_)
SumSeq(s) == IF s = << >> THEN 0 ELSE Head(s) + SumSeq(Tail(s))

RECURSIVE MinSeq(_)
MinSeq(s) ==
    IF Len(s) = 1 THEN s[1]
    ELSE LET m == MinSeq(Tail(s)) IN IF s[1] <= m THEN s[1] ELSE m

RECURSIVE Ascending(_)
\* the elements of a finite set of integers in increasing order
Ascending(S) ==
    IF S = {} THEN << >>
    ELSE LET m == CHOOSE x \in S : \A y \in S : x <= y
         IN  << m >> \o Ascending(S \ {m})

RECURSIVE Reverse(_)
Reverse(s) == IF s = << >> THEN << >> ELSE Append(Reverse(Tail(s)), Head(s))

SeqElems(s) == {s[k] : k \in 1 .. Len(s)}

RECURSIVE Dedupe(_)
\* tuple(dict.fromkeys(s)): first occurrences, in order
Dedupe(s) ==
    IF s = << >> THEN << >>
    ELSE LET front == Dedupe(SubSeq(s, 1, Len(s) - 1))
             last == s[Len(s)]
         IN  IF last \in SeqElems(front) THEN front ELSE Append(front, last)

(***************************************************************************)
(* Network.__init__(adj_mat = ...): rejects a matrix that is not square,   *)
(* then a negative entry, and zeroes the diagonal.  The result is          *)
(* [err, adjacency_matrix].                                                *)
(***************************************************************************)
Network(adj_mat) ==
    IF shape(adj_mat)[1] # shape(adj_mat)[2]
    THEN [err |-> ErrNotSquare, adjacency_matrix |-> adj_mat]
    ELSE IF \E i \in DOMAIN adj_mat : \E j \in DOMAIN adj_mat : adj_mat[i][j] < 0
    THEN [err |-> ErrNonNegative, adjacency_matrix |-> adj_mat]
    ELSE [err |-> NoError,
          adjacency_matrix |->
              [i \in DOMAIN adj_mat |->
                  [j \in DOMAIN adj_mat |-> IF i = j THEN 0 ELSE adj_mat[i][j]]]]

(***************************************************************************)
(* Network._build_adj_from_edges(edge_table), for a list of entries whose  *)
(* node indices are non-negative integers: an empty list and an entry that *)
(* is not a triple are rejected; the matrix has one more row than the      *)
(* largest index, and every triple (u, v, w) with u # v adds w to the      *)
(* entries [u, v] and [v, u].  The result is [err, adj].                   *)
(***************************************************************************)
RECURSIVE edge_weight_sum(_, _, _)
edge_weight_sum(processed, i, j) ==
    IF processed = << >> THEN 0
    ELSE LET u == Head(processed)[1]
             v == Head(processed)[2]
             w == Head(processed)[3]
         IN  (IF u # v /\ u = i /\ v = j THEN w ELSE 0)
             + (IF u # v /\ v = i /\ u = j THEN w ELSE 0)
             + edge_weight_sum(Tail(processed), i, j)

build_adj_from_edges(edge_table) ==
    IF edge_table = << >>
    THEN [err |-> ErrEdgeTableEmpty, adj |-> << >>]
    ELSE IF \E k \in DOMAIN edge_table : Len(edge_table[k]) # 3
    THEN [err |-> ErrEdgeTriple, adj |-> << >>]
    ELSE LET indices == UNION {{edge_table[k][1], edge_table[k][2]} : k \in DOMAIN edge_table}
             max_index == CHOOSE m \in indices : \A n \in indices : m >= n
             size == max_index + 1
         IN  [err |-> NoError,
              adj |-> [i \in 0 .. size - 1 |->
                          [j \in 0 .. size - 1 |-> edge_weight_sum(edge_table, i, j)]]]

(***************************************************************************)
(* Network.__init__(kwargs): kwargs is the record of the keyword           *)
(* arguments that are given (not None).  Exactly one of adj_mat and        *)
(* edge_table is required; an edge table is first turned into a matrix.    *)
(***************************************************************************)
Network_init(kwargs) ==
    IF "adj_mat" \notin DOMAIN kwargs /\ "edge_table" \notin DOMAIN kwargs
    THEN [err |-> ErrProvideEither, adjacency_matrix |-> << >>]
    ELSE IF "adj_mat" \in DOMAIN kwargs /\ "edge_table" \in DOMAIN kwargs
    THEN [err |-> ErrOnlyOne, adjacency_matrix |-> << >>]
    ELSE IF "adj_mat" \in DOMAIN kwargs
    THEN Network(kwargs.adj_mat)
    ELSE LET built == build_adj_from_edges(kwargs.edge_table)
         IN  IF built.err # NoError
             THEN [err |-> built.err, adjacency_matrix |-> << >>]
             ELSE Network(built.adj)

(***************************************************************************)
(* Network.bfs(root)                                                       *)
(***************************************************************************)
\* a search that expands the root only and never the nodes it enqueues
bfs_root_only(adjacency_matrix, queue, position, visited, path_trace) ==
    LET current == queue[position]
        neighbours == {nb \in DOMAIN adjacency_matrix :
                          adjacency_matrix[current][nb] > 0}
    IN  [x \in DOMAIN path_trace |->
            IF x \in neighbours \ visited THEN current ELSE path_trace[x]]

\* a search that takes every other node for a neighbour, whatever the
\* capacity of the entry
bfs_loop_any_entry(adjacency_matrix, queue, position, visited, path_trace) ==
    [x \in DOMAIN path_trace |->
        IF x \in visited THEN path_trace[x] ELSE queue[position]]

RECURSIVE bfs_loop_first_neighbour(_, _, _, _, _)
\* a search that enqueues only the first unvisited neighbour of each node
\* it expands
bfs_loop_first_neighbour(adjacency_matrix, queue, position, visited, path_trace) ==
    IF position > Len(queue) THEN path_trace
    ELSE LET current == queue[position]
             neighbours == {nb \in DOMAIN adjacency_matrix :
                               adjacency_matrix[current][nb] > 0}
             unvisited == Ascending(neighbours \ visited)
             fresh == IF unvisited = << >> THEN << >> ELSE << unvisited[1] >>
         IN  bfs_loop_first_neighbour(adjacency_matrix,
                      queue \o fresh,
                      position + 1,
                      visited \cup SeqElems(fresh),
                      [x \in DOMAIN path_trace |->
                          IF x \in SeqElems(fresh) THEN current ELSE path_trace[x]])

RECURSIVE bfs_loop(_, _, _, _, _)
\* "for current in queue": position is the index of current in the queue
bfs_loop(adjacency_matrix, queue, position, visited, path_trace) ==
    IF position > Len(queue) THEN path_trace
    ELSE LET current == queue[position]
             neighbours == {nb \in DOMAIN adjacency_matrix :
                               adjacency_matrix[current][nb] > 0}
             fresh == Ascending(neighbours \ visited)
         IN  bfs_loop(adjacency_matrix,
                      queue \o fresh,
                      position + 1,
                      visited \cup SeqElems(fresh),
                      [x \in DOMAIN path_trace |->
                          IF x \in SeqElems(fresh) THEN current ELSE path_trace[x]])

bfs(adjacency_matrix, root) ==
    IF root < 0 \/ root >= n_nodes(adjacency_matrix)
    THEN [err |-> ErrRootOutOfBounds, path_trace |-> << >>]
    ELSE [err |-> NoError,
          path_trace |->
              bfs_loop(adjacency_matrix, << root >>, 1, {root},
                       [x \in DOMAIN adjacency_matrix |->
                           IF x = root THEN root ELSE -1])]

(***************************************************************************)
(* Network.path_from_bfs(path_trace, dest)                                 *)
(***************************************************************************)
RECURSIVE path_walk(_, _, _)
path_walk(path_trace, cur, path) ==
    IF path_trace[cur] = cur THEN path
    ELSE path_walk(path_trace, path_trace[cur], Append(path, path_trace[cur]))

\* a reconstruction that does not look at the trace entry of dest
path_from_bfs_unchecked(path_trace, dest) ==
    IF dest < 0 \/ dest >= Cardinality(DOMAIN path_trace)
    THEN [err |-> ErrDestOutOfBounds, path |-> << >>]
    ELSE [err |-> NoError, path |-> << dest >>]

path_from_bfs(path_trace, dest) ==
    IF dest < 0 \/ dest >= Cardinality(DOMAIN path_trace)
    THEN [err |-> ErrDestOutOfBounds, path |-> << >>]
    ELSE IF path_trace[dest] < 0
    THEN [err |-> ErrUnreachable, path |-> << >>]
    ELSE [err |-> NoError,
          path |-> Reverse(path_walk(path_trace, dest, << dest >>))]

(***************************************************************************)
(* Flow: a record [flow_matrix, sources, sinks]; sources and sinks are     *)
(* tuples of node ids.                                                     *)
(***************************************************************************)
NoFlow == [flow_matrix |-> << >>, sources |-> << >>, sinks |-> << >>]

\* Flow.flow_out[i], Flow.flow_in[i], Flow.net_flow[i]
flow_out(flow_matrix, i) == RowSum(flow_matrix, i)

flow_in(flow_matrix, i) == ColSum(flow_matrix, i)

net_flow(flow_matrix, i) == flow_in(flow_matrix, i) - flow_out(flow_matrix, i)

\* Flow._conserves_flow
conserves_flow(flow_matrix, sources, sinks) ==
    /\ \A i \in DOMAIN flow_matrix : \A j \in DOMAIN flow_matrix :
           allclose(flow_matrix[i][j], -flow_matrix[j][i])
    /\ \A i \in DOMAIN flow_matrix : flow_matrix[i][i] = 0
    /\ \A idx \in DOMAIN flow_matrix :
           idx \in (SeqElems(sources) \cup SeqElems(sinks))
              \/ net_flow(flow_matrix, idx) = 0

\* Flow.__init__(flow_matrix, sources, sinks): [err, flow]
Flow(flow_matrix, sources, sinks) ==
    LET n == n_nodes(flow_matrix)
        srcs == Dedupe(sources)
        snks == Dedupe(sinks)
        made == [flow_matrix |-> flow_matrix, sources |-> srcs, sinks |-> snks]
    IN  IF shape(flow_matrix)[1] # shape(flow_matrix)[2]
        THEN [err |-> ErrFlowNotSquare, flow |-> NoFlow]
        ELSE IF \E node \in SeqElems(srcs) \cup SeqElems(snks) : node < 0 \/ node >= n
        THEN [err |-> ErrTerminalIndex, flow |-> NoFlow]
        ELSE IF ~conserves_flow(flow_matrix, srcs, snks)
        THEN [err |-> ErrNotConserving, flow |-> NoFlow]
        ELSE [err |-> NoError, flow |-> made]

\* Flow.zero_flow(n_nodes, sources, sinks)
zero_flow(n, sources, sinks) == Flow(Zeros(n), sources, sinks)

\* Flow.value
value(flow) ==
    IF flow.sources # << >>
    THEN SumSeq([k \in 1 .. Len(flow.sources) |->
                    flow_out(flow.flow_matrix, flow.sources[k])])
    ELSE IF flow.sinks # << >>
    THEN SumSeq([k \in 1 .. Len(flow.sinks) |->
                    flow_in(flow.flow_matrix, flow.sinks[k])])
    ELSE 0

RECURSIVE send_pairs(_, _, _, _)
\* the loop of send_flow_along over the consecutive pairs path[k], path[k+1];
\* the matrix is updated in place, so an index error leaves the earlier
\* updates behind
send_pairs(flow_matrix, path, k, amount) ==
    IF k >= Len(path) THEN [err |-> NoError, flow_matrix |-> flow_matrix]
    ELSE LET u == path[k]
             v == path[k + 1]
             n == n_nodes(flow_matrix)
         IN  IF u < 0 \/ v < 0 \/ u >= n \/ v >= n
             THEN [err |-> ErrPathIndex, flow_matrix |-> flow_matrix]
             ELSE LET plus == [flow_matrix EXCEPT ![u][v] = @ + amount]
                      minus == [plus EXCEPT ![v][u] = @ - amount]
                  IN  send_pairs(minus, path, k + 1, amount)

\* Flow.send_flow_along(path, amount): [err, flow_matrix]
send_flow_along(flow_matrix, path, amount) ==
    IF Len(path) < 2
    THEN [err |-> ErrShortPath, flow_matrix |-> flow_matrix]
    ELSE send_pairs(flow_matrix, path, 1, amount)

(***************************************************************************)
(* Network.edmonds_karp(source, sink, maxiter)                             *)
(***************************************************************************)
\* the entry checks: the message raised, or NoError
edmonds_karp_entry(adjacency_matrix, source, sink) ==
    IF source = sink THEN ErrSourceIsSink
    ELSE IF source < 0 \/ sink < 0
            \/ source >= n_nodes(adjacency_matrix)
            \/ sink >= n_nodes(adjacency_matrix)
    THEN ErrSourceSinkOutOfBounds
    ELSE NoError

\* min(residual[i, j] for i, j in zip(path[:-1], path[1:]))
bottleneck(residual_matrix, path) ==
    MinSeq([k \in 1 .. (Len(path) - 1) |-> residual_matrix[path[k]][path[k + 1]]])

\* one pass through the body of the for loop: [err, converged, flow_matrix]
edmonds_karp_iteration(adjacency_matrix, source, sink, flow_matrix) ==
    LET residual == Network(MatrixSub(adjacency_matrix, flow_matrix))
        searched == bfs(residual.adjacency_matrix, source)
        path_trace == searched.path_trace
        found == path_from_bfs(path_trace, sink)
        augment == bottleneck(residual.adjacency_matrix, found.path)
        sent == send_flow_along(flow_matrix, found.path, augment)
    IN  IF residual.err # NoError
        THEN [err |-> residual.err, converged |-> FALSE, flow_matrix |-> flow_matrix]
        ELSE IF searched.err # NoError
        THEN [err |-> searched.err, converged |-> FALSE, flow_matrix |-> flow_matrix]
        ELSE IF path_trace[sink] < 0
        THEN [err |-> NoError, converged |-> TRUE, flow_matrix |-> flow_matrix]
        ELSE IF found.err # NoError
        THEN [err |-> found.err, converged |-> FALSE, flow_matrix |-> flow_matrix]
        ELSE [err |-> sent.err, converged |-> FALSE, flow_matrix |-> sent.flow_matrix]

\* an exit that raises when the loop did converge
exit_inverted(has_converged, flow) ==
    IF has_converged THEN [err |-> ErrNotConverged, flow |-> NoFlow]
    ELSE [err |-> NoError, flow |-> flow]

\* what follows the for loop: raise without convergence, else return f
edmonds_karp_exit(has_converged, flow) ==
    IF ~has_converged THEN [err |-> ErrNotConverged, flow |-> NoFlow]
    ELSE [err |-> NoError, flow |-> flow]

RECURSIVE edmonds_karp_loop(_, _, _, _, _)
\* "for _ in range(maxiter)" with `remaining` passes left
edmonds_karp_loop(adjacency_matrix, source, sink, flow, remaining) ==
    IF remaining <= 0 THEN edmonds_karp_exit(FALSE, flow)
    ELSE LET pass == edmonds_karp_iteration(adjacency_matrix, source, sink,
                                            flow.flow_matrix)
             next == [flow EXCEPT !.flow_matrix = pass.flow_matrix]
         IN  IF pass.err # NoError THEN [err |-> pass.err, flow |-> NoFlow]
             ELSE IF pass.converged THEN edmonds_karp_exit(TRUE, flow)
             ELSE edmonds_karp_loop(adjacency_matrix, source, sink, next,
                                    remaining - 1)

\* the whole call: [err, flow]
edmonds_karp(adjacency_matrix, source, sink, maxiter) ==
    LET entry == edmonds_karp_entry(adjacency_matrix, source, sink)
        f == zero_flow(n_nodes(adjacency_matrix), << source >>, << sink >>)
    IN  IF entry # NoError THEN [err |-> entry, flow |-> NoFlow]
        ELSE IF f.err # NoError THEN [err |-> f.err, flow |-> NoFlow]
        ELSE edmonds_karp_loop(adjacency_matrix, source, sink, f.flow, maxiter)

(***************************************************************************)
(* The module-level function edmonds_karp(G, s, t, mi)                     *)
(***************************************************************************)
\* one pass through the body of its for loop: [err, c, flow_matrix]
module_edmonds_karp_iteration(G, s, t, flow_matrix) ==
    LET rg == Network(MatrixSub(G, flow_matrix))
        searched == bfs(rg.adjacency_matrix, s)
        pt == searched.path_trace
        found == path_from_bfs(pt, t)
        p == found.path
        a == MinSeq([k \in 1 .. (Len(p) - 1) |-> rg.adjacency_matrix[p[k]][p[k + 1]]])
        sent == send_flow_along(flow_matrix, p, a)
    IN  IF rg.err # NoError
        THEN [err |-> rg.err, c |-> FALSE, flow_matrix |-> flow_matrix]
        ELSE IF searched.err # NoError
        THEN [err |-> searched.err, c |-> FALSE, flow_matrix |-> flow_matrix]
        ELSE IF pt[t] < 0
        THEN [err |-> NoError, c |-> TRUE, flow_matrix |-> flow_matrix]
        ELSE IF found.err # NoError
        THEN [err |-> found.err, c |-> FALSE, flow_matrix |-> flow_matrix]
        ELSE IF Len(p) < 2
        THEN [err |-> ValueErrorEmptyMin, c |-> FALSE, flow_matrix |-> flow_matrix]
        ELSE [err |-> sent.err, c |-> FALSE, flow_matrix |-> sent.flow_matrix]

RECURSIVE module_edmonds_karp_loop(_, _, _, _, _)
\* "for _ in range(mi)" with `remaining` passes left, then
\* "if not c: raise TubePlanningError()" and "return f"
module_edmonds_karp_loop(G, s, t, flow, remaining) ==
    IF remaining <= 0 THEN [err |-> ErrNoMessage, flow |-> NoFlow]
    ELSE LET pass == module_edmonds_karp_iteration(G, s, t, flow.flow_matrix)
             next == [flow EXCEPT !.flow_matrix = pass.flow_matrix]
         IN  IF pass.err # NoError THEN [err |-> pass.err, flow |-> NoFlow]
             ELSE IF pass.c THEN [err |-> NoError, flow |-> flow]
             ELSE module_edmonds_karp_loop(G, s, t, next, remaining - 1)

\* the whole call: [err, flow]
module_edmonds_karp(G, s, t, mi) ==
    LET made == zero_flow(n_nodes(G), << s >>, << t >>)
    IN  IF made.err # NoError THEN [err |-> made.err, flow |-> NoFlow]
        ELSE module_edmonds_karp_loop(G, s, t, made.flow, mi)

(***************************************************************************)
(* Network.maximum_flow(sources, sinks, maxiter)                           *)
(***************************************************************************)
\* the (n+2) x (n+2) matrix: adjacency_matrix in the top-left block, node n
\* (super source) joined both ways to every node of `supply_of`, node n+1
\* (super sink) to every node of `demand_of`; supply_of / demand_of map a
\* terminal to the capacity of its synthetic edge
expanded_matrix(adjacency_matrix, supply_of, demand_of) ==
    LET n == n_nodes(adjacency_matrix)
        super_source == n
        super_sink == n + 1
    IN  [i \in NodeIds(n + 2) |-> [j \in NodeIds(n + 2) |->
            IF i < n /\ j < n THEN adjacency_matrix[i][j]
            ELSE IF i = super_source /\ j \in DOMAIN supply_of THEN supply_of[j]
            ELSE IF j = super_source /\ i \in DOMAIN supply_of THEN supply_of[i]
            ELSE IF i = super_sink /\ j \in DOMAIN demand_of THEN demand_of[j]
            ELSE IF j = super_sink /\ i \in DOMAIN demand_of THEN demand_of[i]
            ELSE 0]]

\* a capacity of the synthetic edges that ignores the network
unit_capacity(adjacency_matrix) == 1

\* total_capacity: the sum of all capacities, 1.0 when that is not positive
total_capacity_of(adjacency_matrix) ==
    LET summed == MatrixSum(adjacency_matrix)
    IN  IF summed <= 0 THEN 1 ELSE summed

\* an entry that checks the node ids before it compares the two lists
maximum_flow_entry_bounds_first(adjacency_matrix, sources, sinks) ==
    LET srcs == Dedupe(sources)
        snks == Dedupe(sinks)
        n == n_nodes(adjacency_matrix)
        total_capacity == total_capacity_of(adjacency_matrix)
        failed(msg) == [err |-> msg, sources |-> srcs, sinks |-> snks,
                        expanded |-> << >>]
    IN  IF \E s \in SeqElems(srcs) : s < 0 \/ s >= n
        THEN failed(ErrSourceIndex)
        ELSE IF \E t \in SeqElems(snks) : t < 0 \/ t >= n
        THEN failed(ErrSinkIndex)
        ELSE IF SeqElems(srcs) \cap SeqElems(snks) # {} THEN failed(ErrNotDisjoint)
        ELSE IF srcs = << >> \/ snks = << >> THEN failed(ErrNoTerminals)
        ELSE [err |-> NoError, sources |-> srcs, sinks |-> snks,
              expanded |->
                  Network(expanded_matrix(
                      adjacency_matrix,
                      [s \in SeqElems(srcs) |-> total_capacity],
                      [t \in SeqElems(snks) |-> total_capacity])).adjacency_matrix]

\* everything before the search: [err, sources, sinks, expanded]
maximum_flow_entry(adjacency_matrix, sources, sinks) ==
    LET srcs == Dedupe(sources)
        snks == Dedupe(sinks)
        n == n_nodes(adjacency_matrix)
        total_capacity == total_capacity_of(adjacency_matrix)
        failed(msg) == [err |-> msg, sources |-> srcs, sinks |-> snks,
                        expanded |-> << >>]
    IN  IF SeqElems(srcs) \cap SeqElems(snks) # {} THEN failed(ErrNotDisjoint)
        ELSE IF srcs = << >> \/ snks = << >> THEN failed(ErrNoTerminals)
        ELSE IF \E s \in SeqElems(srcs) : s < 0 \/ s >= n
        THEN failed(ErrSourceIndex)
        ELSE IF \E t \in SeqElems(snks) : t < 0 \/ t >= n
        THEN failed(ErrSinkIndex)
        ELSE [err |-> NoError, sources |-> srcs, sinks |-> snks,
              expanded |->
                  Network(expanded_matrix(
                      adjacency_matrix,
                      [s \in SeqElems(srcs) |-> total_capacity],
                      [t \in SeqElems(snks) |-> total_capacity])).adjacency_matrix]

\* everything after the search: base_flow = flow_matrix[:n, :n], Flow(...)
maximum_flow_exit(n, expanded_result, sources, sinks) ==
    IF expanded_result.err # NoError
    THEN [err |-> expanded_result.err, flow |-> NoFlow]
    ELSE Flow(TopLeft(expanded_result.flow.flow_matrix, n), sources, sinks)

maximum_flow(adjacency_matrix, sources, sinks, maxiter) ==
    LET n == n_nodes(adjacency_matrix)
        entry == maximum_flow_entry(adjacency_matrix, sources, sinks)
    IN  IF entry.err # NoError THEN [err |-> entry.err, flow |-> NoFlow]
        ELSE maximum_flow_exit(n,
                 edmonds_karp(entry.expanded, n, n + 1, maxiter),
                 entry.sources, entry.sinks)

(***************************************************************************)
(* Network.sufficient_flow(sources, sinks, maxiter).  The two mappings     *)
(* node -> supply / demand are tuples of <<node, amount>> pairs with       *)
(* distinct nodes, in the mapping's iteration order.                       *)
(***************************************************************************)
Keys(mapping) == [k \in 1 .. Len(mapping) |-> mapping[k][1]]

Values(mapping) == [k \in 1 .. Len(mapping) |-> mapping[k][2]]

Lookup(mapping) ==
    [node \in SeqElems(Keys(mapping)) |->
        mapping[CHOOSE k \in 1 .. Len(mapping) : mapping[k][1] = node][2]]

\* an entry that compares total supply and total demand only after the
\* node ids have been checked
sufficient_flow_entry_late_check(adjacency_matrix, sources, sinks) ==
    LET n == n_nodes(adjacency_matrix)
        total_supply == SumSeq(Values(sources))
        total_demand == SumSeq(Values(sinks))
        failed(msg) == [err |-> msg, expanded |-> << >>]
    IN  IF sources = << >> \/ sinks = << >> THEN failed(ErrNotProvided)
        ELSE IF \E val \in SeqElems(Values(sources)) \cup SeqElems(Values(sinks)) :
                    val < 0
        THEN failed(ErrNegativeSupply)
        ELSE IF \E node \in SeqElems(Keys(sources)) : node < 0 \/ node >= n
        THEN failed(ErrSourceIndex)
        ELSE IF \E node \in SeqElems(Keys(sinks)) : node < 0 \/ node >= n
        THEN failed(ErrSinkIndex)
        ELSE IF total_supply < total_demand THEN failed(ErrInsufficientSupply)
        ELSE [err |-> NoError,
              expanded |->
                  Network(expanded_matrix(adjacency_matrix,
                                          Lookup(sources),
                                          Lookup(sinks))).adjacency_matrix]

\* everything before the search: [err, expanded]
sufficient_flow_entry(adjacency_matrix, sources, sinks) ==
    LET n == n_nodes(adjacency_matrix)
        total_supply == SumSeq(Values(sources))
        total_demand == SumSeq(Values(sinks))
        failed(msg) == [err |-> msg, expanded |-> << >>]
    IN  IF sources = << >> \/ sinks = << >> THEN failed(ErrNotProvided)
        ELSE IF \E val \in SeqElems(Values(sources)) \cup SeqElems(Values(sinks)) :
                    val < 0
        THEN failed(ErrNegativeSupply)
        ELSE IF total_supply < total_demand THEN failed(ErrInsufficientSupply)
        ELSE IF \E node \in SeqElems(Keys(sources)) : node < 0 \/ node >= n
        THEN failed(ErrSourceIndex)
        ELSE IF \E node \in SeqElems(Keys(sinks)) : node < 0 \/ node >= n
        THEN failed(ErrSinkIndex)
        ELSE [err |-> NoError,
              expanded |->
                  Network(expanded_matrix(adjacency_matrix,
                                          Lookup(sources),
                                          Lookup(sinks))).adjacency_matrix]

\* everything after the search: the demand check on the expanded flow, then
\* base_flow = flow_matrix[:n, :n] and Flow(...)
sufficient_flow_exit(n, expanded_result, sources, sinks) ==
    IF expanded_result.err # NoError
    THEN [err |-> expanded_result.err, flow |-> NoFlow]
    ELSE IF value(expanded_result.flow) < SumSeq(Values(sinks))
    THEN [err |-> ErrDemandNotMet, flow |-> NoFlow]
    ELSE Flow(TopLeft(expanded_result.flow.flow_matrix, n),
              Keys(sources), Keys(sinks))

sufficient_flow(adjacency_matrix, sources, sinks, maxiter) ==
    LET n == n_nodes(adjacency_matrix)
        entry == sufficient_flow_entry(adjacency_matrix, sources, sinks)
    IN  IF entry.err # NoError THEN [err |-> entry.err, flow |-> NoFlow]
        ELSE sufficient_flow_exit(n,
                 edmonds_karp(entry.expanded, n, n + 1, maxiter),
                 sources, sinks)

(***************************************************************************)
(* Network.__add__(self, other): the smaller matrix is copied into a zero  *)
(* matrix of the larger one's shape, the two are added into a new array    *)
(* and a Network is built from it.  The result is [err, adjacency_matrix,  *)
(* self_after, other_after]: the new Network's matrix and the matrices of  *)
(* the two operands as the call leaves them.                               *)
(***************************************************************************)
\* np.zeros(shape); expanded[:k, :k] = matrix, for the k x k `matrix`
zero_padded(matrix, n) ==
    [i \in NodeIds(n) |-> [j \in NodeIds(n) |->
        IF i < n_nodes(matrix) /\ j < n_nodes(matrix) THEN matrix[i][j] ELSE 0]]

\* a combination in which an edge of both networks keeps the larger of its
\* two capacities
add_keeping_larger(self_matrix, other_matrix) ==
    LET n == IF n_nodes(other_matrix) < n_nodes(self_matrix)
             THEN n_nodes(self_matrix) ELSE n_nodes(other_matrix)
        a == zero_padded(self_matrix, n)
        b == zero_padded(other_matrix, n)
    IN  [err |-> NoError,
         adjacency_matrix |->
             [i \in NodeIds(n) |-> [j \in NodeIds(n) |->
                 IF a[i][j] >= b[i][j] THEN a[i][j] ELSE b[i][j]]],
         self_after |-> self_matrix,
         other_after |-> other_matrix]

\* a combination cut down to the nodes the two networks share
add_truncating(self_matrix, other_matrix) ==
    LET n == IF n_nodes(other_matrix) < n_nodes(self_matrix)
             THEN n_nodes(other_matrix) ELSE n_nodes(self_matrix)
    IN  [err |-> NoError,
         adjacency_matrix |->
             MatrixAdd(TopLeft(self_matrix, n), TopLeft(other_matrix, n)),
         self_after |-> self_matrix,
         other_after |-> other_matrix]

\* a combination that adds the smaller network into the larger one's own
\* matrix
add_in_place(self_matrix, other_matrix) ==
    LET self_is_larger == n_nodes(other_matrix) < n_nodes(self_matrix)
        larger == IF self_is_larger THEN self_matrix ELSE other_matrix
        smaller == IF self_is_larger THEN other_matrix ELSE self_matrix
        summed == MatrixAdd(larger, zero_padded(smaller, n_nodes(larger)))
    IN  [err |-> NoError,
         adjacency_matrix |-> summed,
         self_after |-> IF self_is_larger THEN summed ELSE self_matrix,
         other_after |-> IF self_is_larger THEN other_matrix ELSE summed]

__add__(self_matrix, other_matrix) ==
    LET self_is_larger == n_nodes(other_matrix) < n_nodes(self_matrix)
        larger == IF self_is_larger THEN self_matrix ELSE other_matrix
        smaller == IF self_is_larger THEN other_matrix ELSE self_matrix
        smaller_expanded_matrix == zero_padded(smaller, n_nodes(larger))
        made == Network(MatrixAdd(larger, smaller_expanded_matrix))
    IN  [err |-> made.err,
         adjacency_matrix |-> made.adjacency_matrix,
         self_after |-> self_matrix,
         other_after |-> other_matrix]

(***************************************************************************)
(* Network.capacity_constraint(flow): the message raised, or NoError when  *)
(* the call returns True.                                                  *)
(***************************************************************************)
capacity_constraint(adjacency_matrix, flow) ==
    LET flow_matrix == flow.flow_matrix
    IN  IF shape(flow_matrix) # shape(adjacency_matrix) THEN ErrShapesDiffer
        ELSE IF \E i \in DOMAIN flow_matrix : \E j \in DOMAIN flow_matrix :
                    ~allclose(flow_matrix[i][j], -flow_matrix[j][i])
        THEN ErrNotSkewSymmetric
        ELSE IF \E i \in DOMAIN flow_matrix : \E j \in DOMAIN flow_matrix :
                    Abs(flow_matrix[i][j]) - adjacency_matrix[i][j] > 0
        THEN ErrExceedsCapacity
        ELSE NoError

(***************************************************************************)
(* PerformanceCriteria and CriteriaGroup.  A PerformanceCriteria is a      *)
(* record [sources, sinks, supplies, demands, weight]; supplies and        *)
(* demands are [given, values], given = FALSE standing for None.  The      *)
(* constructor has checked that sources and sinks are not empty and that   *)
(* given supplies / demands are as long as sources / sinks and hold no     *)
(* negative amount.                                                        *)
(***************************************************************************)
is_sufficient_problem(crit) == crit.supplies.given /\ crit.demands.given

\* dict(zip(keys, vals, strict=True)) as a tuple of << key, value >> pairs:
\* keys in the order of their first occurrence, each with its last value
dict_zip(keys, vals) ==
    LET ks == Dedupe(keys)
        last(key) == CHOOSE i \in 1 .. Len(keys) :
                        /\ keys[i] = key
                        /\ \A later \in (i + 1) .. Len(keys) : keys[later] # key
    IN  [k \in 1 .. Len(ks) |-> << ks[k], vals[last(ks[k])] >>]

\* a scoring layer without the except clause: the engine's error goes on
\* to the caller
propagate_engine_error(err) == [err |-> err, score |-> 0]

\* except TubePlanningError: return -1.0
on_engine_error(err) == [err |-> NoError, score |-> -1]

\* a score that forgets the weight
evaluate_unweighted(weight, inner) == inner

\* self.weight * self._evaluate(...): [err, score]
weighted(weight, inner) ==
    IF inner.err # NoError THEN inner
    ELSE [err |-> NoError, score |-> weight * inner.score]

\* PerformanceCriteria._evaluate(proposed, current): [err, score]
_evaluate(crit, proposed, current) ==
    LET combined == __add__(current, proposed).adjacency_matrix
        source_caps == dict_zip(crit.sources, crit.supplies.values)
        sink_caps == dict_zip(crit.sinks, crit.demands.values)
        flow == sufficient_flow(combined, source_caps, sink_caps, DefaultMaxIter)
        combined_flow == maximum_flow(combined, crit.sources, crit.sinks,
                                      DefaultMaxIter)
        current_flow == maximum_flow(current, crit.sources, crit.sinks,
                                     DefaultMaxIter)
    IN  IF is_sufficient_problem(crit)
        THEN IF flow.err # NoError THEN on_engine_error(flow.err)
             ELSE [err |-> NoError,
                   score |-> IF value(flow.flow) >= SumSeq(crit.demands.values)
                             THEN 1 ELSE -1]
        ELSE IF combined_flow.err # NoError
        THEN on_engine_error(combined_flow.err)
        ELSE IF current_flow.err # NoError
        THEN on_engine_error(current_flow.err)
        ELSE [err |-> NoError,
              score |-> value(combined_flow.flow) - value(current_flow.flow)]

\* Criteria.evaluate(proposed, current, costing_information): [err, score]
evaluate(crit, proposed, current) ==
    weighted(crit.weight, _evaluate(crit, proposed, current))

\* "for crit in self.essential": the val of each pass, in order
essential_loop(essential, proposed, current) ==
    [k \in 1 .. Len(essential) |-> evaluate(essential[k], proposed, current)]

\* "for crit in self.desirable": the value added to score by each pass
desirable_loop(desirable, proposed, current) ==
    [k \in 1 .. Len(desirable) |-> evaluate(desirable[k], proposed, current)]

\* The body of CriteriaGroup.evaluate over the values vals that the
\* crit.evaluate calls return, essential criteria first: the first exception
\* ends the call; otherwise score sums every val and failed holds the
\* positions of the essential criteria with val <= 0
group_score(vals, n_essential) ==
    LET raising == {k \in 1 .. Len(vals) : vals[k].err # NoError}
    IN  IF raising # {}
        THEN [err |-> vals[CHOOSE k \in raising : \A j \in raising : k <= j].err,
              score |-> 0, failed |-> << >>]
        ELSE [err |-> NoError,
              score |-> SumSeq([k \in 1 .. Len(vals) |-> vals[k].score]),
              failed |-> Ascending({k \in 1 .. n_essential : vals[k].score <= 0})]

\* CriteriaGroup.evaluate(proposed, current, costing_information):
\* [err, score, failed]
CriteriaGroup_evaluate(essential, desirable, proposed, current) ==
    group_score(essential_loop(essential, proposed, current)
                   \o desirable_loop(desirable, proposed, current),
                Len(essential))

(***************************************************************************)
(* edmonds_karp on capacities that are not small integers.  The matrices   *)
(* are ndarrays of dtype float (binary64): every subtraction and addition  *)
(* of entries is rounded to 53 significant bits, ties to the even          *)
(* significand.  A value hi * 2^52 + lo with integers hi and lo, |lo| far  *)
(* below 2^51, is held here as the record [hi, lo]; these are integers,    *)
(* exact sums and differences of them are again of this form, and the      *)
(* binary64 spacing at such a value is 1 below 2^53, 2 below 2^54, 4 below *)
(* 2^55, ..., so the rounding acts on lo alone.                            *)
(***************************************************************************)
Double(hi, lo) == [hi |-> hi, lo |-> lo]

\* -1, 0 or 1: the sign of the value
sign(x) ==
    IF x.hi > 0 THEN 1
    ELSE IF x.hi < 0 THEN -1
    ELSE IF x.lo > 0 THEN 1
    ELSE IF x.lo < 0 THEN -1
    ELSE 0

negative(x) == Double(-x.hi, -x.lo)

RECURSIVE floor_log2(_)
floor_log2(h) == IF h <= 1 THEN 0 ELSE 1 + floor_log2(h \div 2)

RECURSIVE pow2(_)
pow2(e) == IF e <= 0 THEN 1 ELSE 2 * pow2(e - 1)

\* the distance between neighbouring binary64 values at the positive exact
\* value x, counted as 1 where it is 1 or finer (x is an integer): 2^e for
\* x in [2^(52+e), 2^(53+e))
spacing(x) ==
    IF x.hi = 0 THEN 1
    ELSE LET e == floor_log2(x.hi)
         IN  IF x.lo < 0 /\ x.hi = pow2(e) THEN pow2(e - 1) ELSE pow2(e)

\* the multiple of u nearest to lo, the even multiple when two are nearest
round_half_even(lo, u) ==
    LET q == lo \div u
        r == lo % u
    IN  IF 2 * r < u THEN q * u
        ELSE IF 2 * r > u THEN (q + 1) * u
        ELSE IF q % 2 = 0 THEN q * u
        ELSE (q + 1) * u

\* the binary64 value an exact result is rounded to
float64(x) ==
    IF sign(x) >= 0
    THEN Double(x.hi, round_half_even(x.lo, spacing(x)))
    ELSE negative(Double(-x.hi, round_half_even(-x.lo, spacing(negative(x)))))

\* a - b and a + b on binary64
float_sub(a, b) == float64(Double(a.hi - b.hi, a.lo - b.lo))

float_add(a, b) == float64(Double(a.hi + b.hi, a.lo + b.lo))

\* a < b on binary64: comparisons are exact
float_less(a, b) == sign(Double(a.hi - b.hi, a.lo - b.lo)) < 0

DoubleZeros(n) == [i \in NodeIds(n) |-> [j \in NodeIds(n) |-> Double(0, 0)]]

\* self.adjacency_matrix - f.flow_matrix
DoubleMatrixSub(a, b) ==
    [i \in DOMAIN a |-> [j \in DOMAIN a |-> float_sub(a[i][j], b[i][j])]]

\* Network.__init__(adj_mat = ...) on binary64 entries: [err, adjacency_matrix]
DoubleNetwork(adj_mat) ==
    IF shape(adj_mat)[1] # shape(adj_mat)[2]
    THEN [err |-> ErrNotSquare, adjacency_matrix |-> adj_mat]
    ELSE IF \E i \in DOMAIN adj_mat : \E j \in DOMAIN adj_mat : sign(adj_mat[i][j]) < 0
    THEN [err |-> ErrNonNegative, adjacency_matrix |-> adj_mat]
    ELSE [err |-> NoError,
          adjacency_matrix |->
              [i \in DOMAIN adj_mat |->
                  [j \in DOMAIN adj_mat |->
                      IF i = j THEN Double(0, 0) ELSE adj_mat[i][j]]]]

\* what bfs reads of a matrix: "self.adjacency_matrix[current] > 0"
entry_signs(matrix) ==
    [i \in DOMAIN matrix |-> [j \in DOMAIN matrix |-> sign(matrix[i][j])]]

RECURSIVE DoubleMinSeq(_)
DoubleMinSeq(s) ==
    IF Len(s) = 1 THEN s[1]
    ELSE LET m == DoubleMinSeq(Tail(s))
         IN  IF float_less(m, s[1]) THEN m ELSE s[1]

\* min(residual[i, j] for i, j in zip(path[:-1], path[1:]))
double_bottleneck(residual_matrix, path) ==
    DoubleMinSeq([k \in 1 .. (Len(path) - 1) |->
                     residual_matrix[path[k]][path[k + 1]]])

RECURSIVE double_send_pairs(_, _, _, _)
\* the loop of send_flow_along on binary64 entries
double_send_pairs(flow_matrix, path, k, amount) ==
    IF k >= Len(path) THEN [err |-> NoError, flow_matrix |-> flow_matrix]
    ELSE LET u == path[k]
             v == path[k + 1]
             n == n_nodes(flow_matrix)
         IN  IF u < 0 \/ v < 0 \/ u >= n \/ v >= n
             THEN [err |-> ErrPathIndex, flow_matrix |-> flow_matrix]
             ELSE LET plus == [flow_matrix EXCEPT ![u][v] = float_add(@, amount)]
                      minus == [plus EXCEPT ![v][u] = float_sub(@, amount)]
                  IN  double_send_pairs(minus, path, k + 1, amount)

\* Flow.send_flow_along(path, amount) on binary64 entries: [err, flow_matrix]
double_send_flow_along(flow_matrix, path, amount) ==
    IF Len(path) < 2
    THEN [err |-> ErrShortPath, flow_matrix |-> flow_matrix]
    ELSE double_send_pairs(flow_matrix, path, 1, amount)

\* one pass through the body of the for loop of edmonds_karp on binary64
\* entries: [err, converged, flow_matrix]
double_edmonds_karp_iteration(adjacency_matrix, source, sink, flow_matrix) ==
    LET residual == DoubleNetwork(DoubleMatrixSub(adjacency_matrix, flow_matrix))
        searched == bfs(entry_signs(residual.adjacency_matrix), source)
        path_trace == searched.path_trace
        found == path_from_bfs(path_trace, sink)
        augment == double_bottleneck(residual.adjacency_matrix, found.path)
        sent == double_send_flow_along(flow_matrix, found.path, augment)
    IN  IF residual.err # NoError
        THEN [err |-> residual.err, converged |-> FALSE, flow_matrix |-> flow_matrix]
        ELSE IF searched.err # NoError
        THEN [err |-> searched.err, converged |-> FALSE, flow_matrix |-> flow_matrix]
        ELSE IF path_trace[sink] < 0
        THEN [err |-> NoError, converged |-> TRUE, flow_matrix |-> flow_matrix]
        ELSE IF found.err # NoError
        THEN [err |-> found.err, converged |-> FALSE, flow_matrix |-> flow_matrix]
        ELSE [err |-> sent.err, converged |-> FALSE, flow_matrix |-> sent.flow_matrix]

(***************************************************************************)
(* The program as a state machine: a Network is constructed, one of its    *)
(* flow methods is called, the Edmonds-Karp loop runs one pass per step,   *)
(* and the call returns a Flow or raises.  The iteration budget maxiter is *)
(* first read by the for loop of edmonds_karp; it is recorded when the     *)
(* call reaches that loop.                                                 *)
(***************************************************************************)
VARIABLES
    adjacency_matrix,   \* Network.adjacency_matrix of the network called on
    op,                 \* the method called: "none" before the call
    args,               \* its arguments other than maxiter
    pc,                 \* "idle", "loop" (at the head of the for loop), "done"
    searched_matrix,    \* adjacency matrix of the network edmonds_karp runs on
    maxiter,            \* the iteration budget of edmonds_karp
    f,                  \* the Flow f of edmonds_karp
    iterations,         \* passes of the for loop begun so far
    converged,          \* the flag of edmonds_karp
    result              \* [err, flow] of the finished call

vars == << adjacency_matrix, op, args, pc, searched_matrix, maxiter, f,
           iterations, converged, result >>

NoResult == [err |-> "pending", flow |-> NoFlow]

Arcs(n) == {arc \in NodeIds(n) \X NodeIds(n) : arc[1] # arc[2]}

\* the matrix with the given capacities on the given arcs, 0 elsewhere
MatrixOf(n, caps) ==
    [i \in NodeIds(n) |-> [j \in NodeIds(n) |->
        IF << i, j >> \in DOMAIN caps THEN caps[<< i, j >>] ELSE 0]]

\* Network(adj_mat = m) for every matrix m of at most MaxNodes nodes with at
\* most MaxArcs non-zero entries, each at most MaxCap
Init ==
    /\ \E n \in 1 .. MaxNodes :
         \E arcs \in SUBSET Arcs(n) :
            /\ Cardinality(arcs) <= MaxArcs
            /\ \E caps \in [arcs -> 1 .. MaxCap] :
                  adjacency_matrix = Network(MatrixOf(n, caps)).adjacency_matrix
    /\ op = "none"
    /\ args = << >>
    /\ pc = "idle"
    /\ searched_matrix = << >>
    /\ maxiter = 0
    /\ f = NoFlow
    /\ iterations = 0
    /\ converged = FALSE
    /\ result = NoResult

\* the call raised `err` before its search, or it reached the for loop of
\* edmonds_karp on `matrix` with the zero flow `flow` and some budget
Enter(err, matrix, flow) ==
    IF err # NoError
    THEN /\ pc' = "done"
         /\ result' = [err |-> err, flow |-> NoFlow]
         /\ UNCHANGED << searched_matrix, maxiter, f >>
    ELSE /\ pc' = "loop"
         /\ result' = NoResult
         /\ searched_matrix' = matrix
         /\ maxiter' \in 0 .. MaxIter
         /\ f' = flow

\* self.edmonds_karp(source, sink, maxiter) up to the for loop
EdmondsKarpCall ==
    /\ pc = "idle"
    /\ \E source \in -1 .. n_nodes(adjacency_matrix) :
       \E sink \in -1 .. n_nodes(adjacency_matrix) :
          LET entry == edmonds_karp_entry(adjacency_matrix, source, sink)
              zero == zero_flow(n_nodes(adjacency_matrix), << source >>, << sink >>)
          IN  /\ op' = "edmonds_karp"
              /\ args' = [source |-> source, sink |-> sink]
              /\ Enter(IF entry # NoError THEN entry ELSE zero.err,
                       adjacency_matrix, zero.flow)
    /\ UNCHANGED << adjacency_matrix, iterations, converged >>

\* one pass of "for _ in range(maxiter)" in edmonds_karp: residual network,
\* bfs, then either the break or one augmentation
EdmondsKarpPass ==
    /\ pc = "loop"
    /\ ~converged
    /\ iterations < maxiter
    /\ LET pass == edmonds_karp_iteration(searched_matrix, f.sources[1],
                                          f.sinks[1], f.flow_matrix)
       IN  /\ iterations' = iterations + 1
           /\ IF pass.err # NoError
              THEN /\ pc' = "done"
                   /\ result' = [err |-> pass.err, flow |-> NoFlow]
                   /\ UNCHANGED << f, converged >>
              ELSE /\ converged' = pass.converged
                   /\ f' = [f EXCEPT !.flow_matrix = pass.flow_matrix]
                   /\ UNCHANGED << pc, result >>
    /\ UNCHANGED << adjacency_matrix, op, args, searched_matrix, maxiter >>

\* the for loop has ended: by the break, or with the budget used up
LoopOver == pc = "loop" /\ (converged \/ iterations >= maxiter)

\* self.edmonds_karp after the loop: raise or return f
EdmondsKarpReturn ==
    /\ op = "edmonds_karp"
    /\ LoopOver
    /\ pc' = "done"
    /\ result' = edmonds_karp_exit(converged, f)
    /\ UNCHANGED << adjacency_matrix, op, args, searched_matrix, maxiter, f,
                    iterations, converged >>

\* the lists of at most MaxTerminals node ids passed as sources or sinks;
\* id n is out of bounds
TerminalLists(n) ==
    UNION {[1 .. len -> 0 .. n] : len \in 0 .. MaxTerminals}

\* self.maximum_flow(sources, sinks, maxiter) up to the for loop of the
\* edmonds_karp call it makes on the expanded network
MaximumFlowCall ==
    /\ pc = "idle"
    /\ LET n == n_nodes(adjacency_matrix)
       IN  \E sources \in TerminalLists(n) :
           \E sinks \in TerminalLists(n) :
              LET entry == maximum_flow_entry(adjacency_matrix, sources, sinks)
                  inner == edmonds_karp_entry(entry.expanded, n, n + 1)
                  zero == zero_flow(n + 2, << n >>, << n + 1 >>)
              IN  /\ op' = "maximum_flow"
                  /\ args' = [sources |-> sources, sinks |-> sinks]
                  /\ Enter(IF entry.err # NoError THEN entry.err
                           ELSE IF inner # NoError THEN inner
                           ELSE zero.err,
                           entry.expanded, zero.flow)
    /\ UNCHANGED << adjacency_matrix, iterations, converged >>

\* self.maximum_flow after the edmonds_karp call: its error propagates,
\* else the flow is cut back to n x n and wrapped in a Flow
MaximumFlowReturn ==
    /\ op = "maximum_flow"
    /\ LoopOver
    /\ pc' = "done"
    /\ result' = maximum_flow_exit(n_nodes(adjacency_matrix),
                                   edmonds_karp_exit(converged, f),
                                   Dedupe(args.sources), Dedupe(args.sinks))
    /\ UNCHANGED << adjacency_matrix, op, args, searched_matrix, maxiter, f,
                    iterations, converged >>

\* the mappings node -> amount passed as supplies or demands, nodes listed
\* in increasing order: the empty mapping, every mapping of one node 0..n
\* (id n is out of bounds) to an amount -1..MaxAmount, and every mapping of
\* 2..MaxTerminals nodes of the network to positive amounts that total at
\* most MaxAmount
SupplyMaps(n) ==
    {<< >>}
    \cup {<< << node, amount >> >> : node \in 0 .. n, amount \in -1 .. MaxAmount}
    \cup {m \in UNION {[1 .. len -> NodeIds(n) \X (1 .. MaxAmount)] :
                          len \in 2 .. MaxTerminals} :
             /\ \A k \in 1 .. (Len(m) - 1) : m[k][1] < m[k + 1][1]
             /\ SumSeq([k \in 1 .. Len(m) |-> m[k][2]]) <= MaxAmount}

\* self.sufficient_flow(sources, sinks, maxiter) up to the for loop of the
\* edmonds_karp call it makes on the expanded network
SufficientFlowCall ==
    /\ pc = "idle"
    /\ LET n == n_nodes(adjacency_matrix)
       IN  \E sources \in SupplyMaps(n) :
           \E sinks \in SupplyMaps(n) :
              LET entry == sufficient_flow_entry(adjacency_matrix, sources, sinks)
                  inner == edmonds_karp_entry(entry.expanded, n, n + 1)
                  zero == zero_flow(n + 2, << n >>, << n + 1 >>)
              IN  /\ op' = "sufficient_flow"
                  /\ args' = [sources |-> sources, sinks |-> sinks]
                  /\ Enter(IF entry.err # NoError THEN entry.err
                           ELSE IF inner # NoError THEN inner
                           ELSE zero.err,
                           entry.expanded, zero.flow)
    /\ UNCHANGED << adjacency_matrix, iterations, converged >>

\* self.sufficient_flow after the edmonds_karp call: its error propagates,
\* else the demand check, the cut back to n x n and the Flow
SufficientFlowReturn ==
    /\ op = "sufficient_flow"
    /\ LoopOver
    /\ pc' = "done"
    /\ result' = sufficient_flow_exit(n_nodes(adjacency_matrix),
                                      edmonds_karp_exit(converged, f),
                                      args.sources, args.sinks)
    /\ UNCHANGED << adjacency_matrix, op, args, searched_matrix, maxiter, f,
                    iterations, converged >>

NextEK == EdmondsKarpCall \/ EdmondsKarpPass \/ EdmondsKarpReturn

SpecEK == Init /\ [][NextEK]_vars

NextMF == MaximumFlowCall \/ EdmondsKarpPass \/ MaximumFlowReturn

SpecMF == Init /\ [][NextMF]_vars

NextSF == SufficientFlowCall \/ EdmondsKarpPass \/ SufficientFlowReturn

SpecSF == Init /\ [][NextSF]_vars

Next ==
    \/ EdmondsKarpCall
    \/ MaximumFlowCall
    \/ SufficientFlowCall
    \/ EdmondsKarpPass
    \/ EdmondsKarpReturn
    \/ MaximumFlowReturn
    \/ SufficientFlowReturn

Spec == Init /\ [][Next]_vars

(***************************************************************************)
(* The other operations of a Network, each a single call on the network    *)
(* of the state, and the next call on the same network.                    *)
(***************************************************************************)
\* the caller goes on to its next call on the same Network
Again ==
    /\ pc = "done"
    /\ op' = "none"
    /\ args' = << >>
    /\ pc' = "idle"
    /\ searched_matrix' = << >>
    /\ maxiter' = 0
    /\ f' = NoFlow
    /\ iterations' = 0
    /\ converged' = FALSE
    /\ result' = NoResult
    /\ UNCHANGED adjacency_matrix

\* self.bfs(root): result is [err, path_trace]
BfsCall ==
    /\ pc = "idle"
    /\ \E root \in -1 .. n_nodes(adjacency_matrix) :
          LET searched == bfs(adjacency_matrix, root)
          IN  /\ op' = "bfs"
              /\ args' = [root |-> root]
              /\ result' = searched
              /\ pc' = IF searched.err = NoError THEN "traced" ELSE "done"
    /\ UNCHANGED << adjacency_matrix, searched_matrix, maxiter, f, iterations,
                    converged >>

\* Network.path_from_bfs(path_trace, dest) on the trace bfs returned:
\* result is [err, path]
PathFromBfsCall ==
    /\ pc = "traced"
    /\ \E dest \in -1 .. n_nodes(adjacency_matrix) :
          /\ op' = "path_from_bfs"
          /\ args' = [root |-> args.root, path_trace |-> result.path_trace,
                      dest |-> dest]
          /\ result' = path_from_bfs(result.path_trace, dest)
          /\ pc' = "done"
    /\ UNCHANGED << adjacency_matrix, searched_matrix, maxiter, f, iterations,
                    converged >>

\* the square matrices of n nodes with entries of magnitude at most bound
SquareMatrices(n, bound) ==
    [NodeIds(n) -> [NodeIds(n) -> (-bound) .. bound]]

\* the skew-symmetric matrices of 3 nodes with entries of magnitude at most 1
SkewMatrices3 ==
    {[i \in 0 .. 2 |-> [j \in 0 .. 2 |->
         IF i < j THEN up[<< i, j >>]
         ELSE IF j < i THEN -up[<< j, i >>]
         ELSE 0]] :
     up \in [{<< 0, 1 >>, << 0, 2 >>, << 1, 2 >>} -> -1 .. 1]}

\* the matrices of 2 nodes with entries 0, LargeEntry or -(LargeEntry+1)
LargeMatrices2 ==
    [NodeIds(2) -> [NodeIds(2) -> {-(LargeEntry + 1), 0, LargeEntry}]]

\* self.capacity_constraint(flow) for a Flow whose flow_matrix holds any
\* matrix of at most MaxFlowNodes nodes with entries of magnitude at most
\* MaxCap, a skew-symmetric one of 3 nodes, or one of 2 nodes with large
\* entries: result is [err]
CapacityConstraintCall ==
    /\ pc = "idle"
    /\ \E flow_matrix \in
             UNION {SquareMatrices(n, MaxCap) : n \in 1 .. MaxFlowNodes}
             \cup SkewMatrices3 \cup LargeMatrices2 :
          LET flow == [flow_matrix |-> flow_matrix, sources |-> << >>,
                       sinks |-> << >>]
          IN  /\ op' = "capacity_constraint"
              /\ args' = [flow |-> flow]
              /\ result' = [err |-> capacity_constraint(adjacency_matrix, flow)]
    /\ pc' = "done"
    /\ UNCHANGED << adjacency_matrix, searched_matrix, maxiter, f, iterations,
                    converged >>

\* the matrices handed to Network(adj_mat = ...): every square matrix of at
\* most MaxFlowNodes nodes with entries -1, 0 or 1, and the matrices of r
\* rows and c # r columns that are zero but for at most one entry 1 or -1
ConstructorMatrices ==
    UNION {SquareMatrices(n, 1) : n \in 1 .. MaxFlowNodes}
    \cup UNION {{[i \in NodeIds(rc[1]) |-> [j \in NodeIds(rc[2]) |->
                     IF << i, j >> = at THEN entry ELSE 0]] :
                    at \in NodeIds(rc[1]) \X NodeIds(rc[2]), entry \in -1 .. 1} :
                rc \in {p \in (1 .. 3) \X (1 .. 3) : p[1] # p[2]}}

\* the lists handed to Network(edge_table = ...): at most MaxEdgeEntries
\* entries, each a triple (u, v, w) over the nodes 0 .. 2 with w = 1 or -1,
\* or the pair (0, 1)
EdgeEntries ==
    {<< u, v, w >> : u \in 0 .. 2, v \in 0 .. 2, w \in {-1, 1}} \cup {<< 0, 1 >>}

EdgeTables == UNION {[1 .. n -> EdgeEntries] : n \in 0 .. MaxEdgeEntries}

\* the keyword arguments of the constructor calls
ConstructorKwargs ==
    {[adj_mat |-> m] : m \in ConstructorMatrices}
    \cup {[edge_table |-> e] : e \in EdgeTables}
    \cup {[adj_mat |-> m, edge_table |-> e] :
             m \in SquareMatrices(1, 1), e \in [1 .. 1 -> EdgeEntries]}
    \cup {[x \in {} |-> 0]}

\* Network(kwargs), a new instance beside the network of the state:
\* result is [err, adjacency_matrix]
NetworkCall ==
    /\ pc = "idle"
    /\ \E kwargs \in ConstructorKwargs :
          /\ op' = "Network"
          /\ args' = kwargs
          /\ result' = Network_init(kwargs)
    /\ pc' = "done"
    /\ UNCHANGED << adjacency_matrix, searched_matrix, maxiter, f, iterations,
                    converged >>

\* the adjacency matrices of the Networks of at most MaxNodes nodes with at
\* most MaxOtherArcs non-zero entries, each at most MaxOtherCap
OtherNetworks ==
    UNION {UNION {{Network(MatrixOf(n, caps)).adjacency_matrix :
                      caps \in [arcs -> 1 .. MaxOtherCap]} :
                  arcs \in {a \in SUBSET Arcs(n) : Cardinality(a) <= MaxOtherArcs}} :
           n \in 1 .. MaxNodes}

\* self + other: result is [err, adjacency_matrix, other_after]
CombineCall ==
    /\ pc = "idle"
    /\ \E other \in OtherNetworks :
          LET added == __add__(adjacency_matrix, other)
          IN  /\ op' = "__add__"
              /\ args' = [other |-> other]
              /\ adjacency_matrix' = added.self_after
              /\ result' = [err |-> added.err,
                            adjacency_matrix |-> added.adjacency_matrix,
                            other_after |-> added.other_after]
    /\ pc' = "done"
    /\ UNCHANGED << searched_matrix, maxiter, f, iterations, converged >>

(***************************************************************************)
(* A Flow on its own: the constructor, then send_flow_along on the Flow    *)
(* it built.  No Network takes part.                                       *)
(***************************************************************************)
InitFlow ==
    /\ adjacency_matrix = << >>
    /\ op = "none"
    /\ args = << >>
    /\ pc = "idle"
    /\ searched_matrix = << >>
    /\ maxiter = 0
    /\ f = NoFlow
    /\ iterations = 0
    /\ converged = FALSE
    /\ result = NoResult

\* the matrices handed to Flow(...): every square matrix of at most
\* MaxFlowNodes nodes with entries 0, 1, -1, LargeEntry or -(LargeEntry+1),
\* the skew-symmetric matrices of 3 nodes, and the all-zero matrices of r
\* rows and c # r columns
FlowMatrices ==
    UNION {[NodeIds(n) -> [NodeIds(n) ->
               {-(LargeEntry + 1), -1, 0, 1, LargeEntry}]] :
           n \in 0 .. MaxFlowNodes}
    \cup SkewMatrices3
    \cup {[i \in NodeIds(rc[1]) |-> [j \in NodeIds(rc[2]) |-> 0]] :
             rc \in {p \in (1 .. 3) \X (1 .. 3) : p[1] # p[2]}}

\* the tuples of at most MaxTerminals node ids in increasing order, and the
\* tuple that names node 0 twice; id n is out of bounds
FlowTerminals(n) ==
    {Ascending(S) : S \in {T \in SUBSET (0 .. n) : Cardinality(T) <= MaxTerminals}}
    \cup {<< 0, 0 >>}

\* Flow(flow_matrix, sources, sinks): result is [err, flow]
FlowCall ==
    /\ pc = "idle"
    /\ \E flow_matrix \in FlowMatrices :
       \E sources \in FlowTerminals(n_nodes(flow_matrix)) :
       \E sinks \in FlowTerminals(n_nodes(flow_matrix)) :
          LET made == Flow(flow_matrix, sources, sinks)
          IN  /\ op' = "Flow"
              /\ args' = [flow_matrix |-> flow_matrix, sources |-> sources,
                          sinks |-> sinks]
              /\ result' = made
              /\ f' = made.flow
              /\ pc' = IF made.err = NoError THEN "flow" ELSE "done"
    /\ UNCHANGED << adjacency_matrix, searched_matrix, maxiter, iterations,
                    converged >>

\* the paths of at most MaxPathLen node ids; ids -1 and n are out of bounds
Paths(n) == UNION {[1 .. len -> -1 .. n] : len \in 0 .. MaxPathLen}

\* self.send_flow_along(path, amount) on the Flow just built: the matrix is
\* updated in place, result is [err]
SendFlowAlongCall ==
    /\ pc = "flow"
    /\ \E path \in Paths(n_nodes(f.flow_matrix)) :
       \E amount \in 1 .. MaxAmount :
          LET sent == send_flow_along(f.flow_matrix, path, amount)
          IN  /\ op' = "send_flow_along"
              /\ args' = [path |-> path, amount |-> amount,
                          before |-> f.flow_matrix]
              /\ f' = [f EXCEPT !.flow_matrix = sent.flow_matrix]
              /\ result' = [err |-> sent.err]
    /\ pc' = "done"
    /\ UNCHANGED << adjacency_matrix, searched_matrix, maxiter, iterations,
                    converged >>

NextFlow == FlowCall \/ SendFlowAlongCall

SpecFlow == InitFlow /\ [][NextFlow]_vars

(***************************************************************************)
(* The scoring layer: one criterion, or a group of criteria, evaluated for *)
(* a proposed network against the network of the state (the current one).  *)
(***************************************************************************)
NotGiven == [given |-> FALSE, values |-> << >>]

Given(values) == [given |-> TRUE, values |-> values]

\* the proposals: the symmetric networks of OtherNetworks that have at most
\* 2 nodes or capacities of at most 1
ProposedNetworks ==
    {m \in OtherNetworks :
        /\ \A i \in DOMAIN m : \A j \in DOMAIN m : m[i][j] = m[j][i]
        /\ n_nodes(m) <= 2 \/ \A i \in DOMAIN m : \A j \in DOMAIN m : m[i][j] <= 1}

\* the terminal lists of the criteria: a single source and a single sink
\* among the nodes 0..MaxNodes-1 (possibly the same node, possibly beyond a
\* smaller network), two sources for one sink and one source for two sinks
CriteriaTerminals ==
    {<< << s >>, << t >> >> : s \in NodeIds(MaxNodes), t \in NodeIds(MaxNodes)}
    \cup {<< << 0, 1 >>, << 2 >> >>, << << 0 >>, << 1, 2 >> >>}

\* the PerformanceCriteria evaluated: each pair of terminal lists in
\* maximum-flow mode and, in sufficient-flow mode, with amounts 1..MaxAmount
\* for single terminals and 1 for each of two, with weights 1..MaxWeight
PerformanceCriterias ==
    {[sources |-> st[1], sinks |-> st[2], supplies |-> NotGiven,
      demands |-> NotGiven, weight |-> w] :
        st \in CriteriaTerminals, w \in 1 .. MaxWeight}
    \cup {[sources |-> st[1], sinks |-> st[2],
           supplies |-> Given([k \in 1 .. Len(st[1]) |->
                                  IF Len(st[1]) = 1 THEN a ELSE 1]),
           demands |-> Given([k \in 1 .. Len(st[2]) |->
                                 IF Len(st[2]) = 1 THEN b ELSE 1]),
           weight |-> w] :
             st \in CriteriaTerminals, a \in 1 .. MaxAmount,
             b \in 1 .. MaxAmount, w \in 1 .. MaxWeight}

\* crit.evaluate(proposed, current, costing_information): result is
\* [err, score]
EvaluateCall ==
    /\ pc = "idle"
    /\ \E crit \in PerformanceCriterias :
       \E proposed \in ProposedNetworks :
          /\ op' = "evaluate"
          /\ args' = [crit |-> crit, proposed |-> proposed]
          /\ result' = evaluate(crit, proposed, adjacency_matrix)
    /\ pc' = "done"
    /\ UNCHANGED << adjacency_matrix, searched_matrix, maxiter, f, iterations,
                    converged >>

\* the criteria a group is made of: from node 0 to node 1 in maximum-flow
\* mode, the same with source and sink both node 0, and in sufficient-flow
\* mode with supply 1 for demand 1 and for demand MaxAmount
GroupCriterias ==
    {[sources |-> << 0 >>, sinks |-> << 1 >>, supplies |-> NotGiven,
      demands |-> NotGiven, weight |-> 1],
     [sources |-> << 0 >>, sinks |-> << 0 >>, supplies |-> NotGiven,
      demands |-> NotGiven, weight |-> MaxWeight],
     [sources |-> << 0 >>, sinks |-> << 1 >>, supplies |-> Given(<< 1 >>),
      demands |-> Given(<< 1 >>), weight |-> 1],
     [sources |-> << 0 >>, sinks |-> << 1 >>, supplies |-> Given(<< 1 >>),
      demands |-> Given(<< MaxAmount >>), weight |-> 1]}

\* CriteriaGroup(essential, desirable).evaluate(proposed, current, ...):
\* result is [err, score, failed]
GroupEvaluateCall ==
    /\ pc = "idle"
    /\ \E essential \in UNION {[1 .. len -> GroupCriterias] :
                                  len \in 0 .. MaxCriteria} :
       \E desirable \in UNION {[1 .. len -> GroupCriterias] : len \in 0 .. 1} :
       \E proposed \in {m \in ProposedNetworks : n_nodes(m) = 2} :
          /\ op' = "CriteriaGroup_evaluate"
          /\ args' = [essential |-> essential, desirable |-> desirable,
                      proposed |-> proposed]
          /\ result' = CriteriaGroup_evaluate(essential, desirable, proposed,
                                              adjacency_matrix)
    /\ pc' = "done"
    /\ UNCHANGED << adjacency_matrix, searched_matrix, maxiter, f, iterations,
                    converged >>

\* the current network: a Network of Init with at most MaxCurrentArcs
\* non-zero entries
InitScore ==
    /\ Init
    /\ Cardinality({arc \in Arcs(n_nodes(adjacency_matrix)) :
                       adjacency_matrix[arc[1]][arc[2]] > 0}) <= MaxCurrentArcs

NextScore == EvaluateCall \/ GroupEvaluateCall

SpecScore == InitScore /\ [][NextScore]_vars

NextSearch == BfsCall \/ PathFromBfsCall

SpecSearch == Init /\ [][NextSearch]_vars

NextNetwork == CombineCall \/ CapacityConstraintCall \/ NetworkCall

SpecNetwork == Init /\ [][NextNetwork]_vars

NextAll ==
    \/ Next
    \/ BfsCall
    \/ PathFromBfsCall
    \/ CapacityConstraintCall
    \/ CombineCall
    \/ NetworkCall
    \/ Again

SpecAll == Init /\ [][NextAll]_vars

(***************************************************************************)
(* A call of the module-level function on the network of the state.        *)
(***************************************************************************)
\* edmonds_karp(G, s, t, mi): result is [err, flow]
ModuleEdmondsKarpCall ==
    /\ pc = "idle"
    /\ \E s \in -1 .. n_nodes(adjacency_matrix) :
       \E t \in -1 .. n_nodes(adjacency_matrix) :
       \E mi \in 0 .. MaxIter :
          /\ op' = "module_edmonds_karp"
          /\ args' = [s |-> s, t |-> t, mi |-> mi]
          /\ result' = module_edmonds_karp(adjacency_matrix, s, t, mi)
          /\ pc' = "done"
    /\ UNCHANGED << adjacency_matrix, searched_matrix, maxiter, f, iterations,
                    converged >>

NextModule == ModuleEdmondsKarpCall

SpecModule == Init /\ [][NextModule]_vars

(***************************************************************************)
(* The edmonds_karp call on a network of binary64 capacities.              *)
(***************************************************************************)
\* the capacities of the explored binary64 networks: 0, 2^52 + 3 and
\* 3 * 2^52 + 6
DoubleCapacities == {Double(1, 3), Double(3, 6)}

Edges(n) == {arc \in NodeIds(n) \X NodeIds(n) : arc[1] < arc[2]}

\* the symmetric matrix with the given capacities on the given edges
DoubleMatrixOf(n, caps) ==
    [i \in NodeIds(n) |-> [j \in NodeIds(n) |->
        IF << i, j >> \in DOMAIN caps THEN caps[<< i, j >>]
        ELSE IF << j, i >> \in DOMAIN caps THEN caps[<< j, i >>]
        ELSE Double(0, 0)]]

\* Network(adj_mat = m) for the symmetric matrices m of DoubleNodes nodes
\* with at most MaxDoubleEdges edges of a capacity of DoubleCapacities
InitDouble ==
    /\ \E edges \in SUBSET Edges(DoubleNodes) :
          /\ Cardinality(edges) <= MaxDoubleEdges
          /\ \E caps \in [edges -> DoubleCapacities] :
                adjacency_matrix =
                   DoubleNetwork(DoubleMatrixOf(DoubleNodes, caps)).adjacency_matrix
    /\ op = "none"
    /\ args = << >>
    /\ pc = "idle"
    /\ searched_matrix = << >>
    /\ maxiter = Double(0, 0)
    /\ f = NoFlow
    /\ iterations = 0
    /\ converged = FALSE
    /\ result = NoResult

\* the iteration budgets of the explored calls: 0 .. MaxIter passes and
\* 2^56 passes, more than any explored network can carry
DoubleBudgets == {Double(0, k) : k \in 0 .. MaxIter} \cup {Double(16, 0)}

\* self.edmonds_karp(source, sink, maxiter) up to the for loop, on a
\* network of binary64 capacities
DoubleEdmondsKarpCall ==
    /\ pc = "idle"
    /\ \E source \in -1 .. n_nodes(adjacency_matrix) :
       \E sink \in -1 .. n_nodes(adjacency_matrix) :
          LET entry == edmonds_karp_entry(adjacency_matrix, source, sink)
              zero == zero_flow(n_nodes(adjacency_matrix), << source >>, << sink >>)
              err == IF entry # NoError THEN entry ELSE zero.err
          IN  /\ op' = "edmonds_karp"
              /\ args' = [source |-> source, sink |-> sink]
              /\ IF err # NoError
                 THEN /\ pc' = "done"
                      /\ result' = [err |-> err, flow |-> NoFlow]
                      /\ UNCHANGED << searched_matrix, maxiter, f >>
                 ELSE /\ pc' = "loop"
                      /\ result' = NoResult
                      /\ searched_matrix' = adjacency_matrix
                      /\ maxiter' \in DoubleBudgets
                      /\ f' = [zero.flow EXCEPT !.flow_matrix =
                                  DoubleZeros(n_nodes(adjacency_matrix))]
    /\ UNCHANGED << adjacency_matrix, iterations, converged >>

\* one pass of "for _ in range(maxiter)" in edmonds_karp on binary64 entries
DoubleEdmondsKarpPass ==
    /\ pc = "loop"
    /\ ~converged
    /\ float_less(Double(0, iterations), maxiter)
    /\ LET pass == double_edmonds_karp_iteration(searched_matrix, f.sources[1],
                                                 f.sinks[1], f.flow_matrix)
       IN  /\ iterations' = iterations + 1
           /\ IF pass.err # NoError
              THEN /\ pc' = "done"
                   /\ result' = [err |-> pass.err, flow |-> NoFlow]
                   /\ UNCHANGED << f, converged >>
              ELSE /\ converged' = pass.converged
                   /\ f' = [f EXCEPT !.flow_matrix = pass.flow_matrix]
                   /\ UNCHANGED << pc, result >>
    /\ UNCHANGED << adjacency_matrix, op, args, searched_matrix, maxiter >>

\* self.edmonds_karp after the loop, which the break or the used-up budget
\* ended: raise or return f
DoubleEdmondsKarpReturn ==
    /\ op = "edmonds_karp"
    /\ pc = "loop"
    /\ converged \/ ~float_less(Double(0, iterations), maxiter)
    /\ pc' = "done"
    /\ result' = edmonds_karp_exit(converged, f)
    /\ UNCHANGED << adjacency_matrix, op, args, searched_matrix, maxiter, f,
                    iterations, converged >>

NextDouble ==
    DoubleEdmondsKarpCall \/ DoubleEdmondsKarpPass \/ DoubleEdmondsKarpReturn

SpecDouble == InitDouble /\ [][NextDouble]_vars

(***************************************************************************)
(* Notions the properties are stated with.                                 *)
(***************************************************************************)
\* total capacity leaving the node set X
CutCapacity(matrix, X) ==
    SumUpTo([i \in DOMAIN matrix |->
                IF i \in X
                THEN SumUpTo([j \in DOMAIN matrix |->
                                 IF j \in X THEN 0 ELSE matrix[i][j]],
                             n_nodes(matrix))
                ELSE 0],
            n_nodes(matrix))

\* least capacity of a cut with S on one side and T on the other
MinCut(matrix, S, T) ==
    LET caps == {CutCapacity(matrix, X \cup S) :
                    X \in SUBSET (DOMAIN matrix \ (S \cup T))}
    IN  CHOOSE c \in caps : \A d \in caps : c <= d

RECURSIVE Closure(_, _)
\* the nodes reached from R along strictly positive entries
Closure(matrix, R) ==
    LET more == R \cup {j \in DOMAIN matrix : \E i \in R : matrix[i][j] > 0}
    IN  IF more = R THEN R ELSE Closure(matrix, more)

\* sink can be reached from source in the residual network A - F
Augmentable(matrix, flow_matrix, source, sink) ==
    sink \in Closure(MatrixSub(matrix, flow_matrix), {source})

\* the hi parts and the lo parts of a matrix of binary64 values
HiPart(matrix) == [i \in DOMAIN matrix |-> [j \in DOMAIN matrix |-> matrix[i][j].hi]]

LoPart(matrix) == [i \in DOMAIN matrix |-> [j \in DOMAIN matrix |-> matrix[i][j].lo]]

\* the total flow out of a node, summed without rounding
ExactOutflow(flow_matrix, node) ==
    Double(RowSum(HiPart(flow_matrix), node), RowSum(LoPart(flow_matrix), node))

\* sink can be reached from source along the entries of A - F, computed in
\* binary64, that are greater than 0
DoubleAugmentable(matrix, flow_matrix, source, sink) ==
    LET residual == DoubleMatrixSub(matrix, flow_matrix)
        positive == [i \in DOMAIN residual |-> [j \in DOMAIN residual |->
                        IF sign(residual[i][j]) > 0 THEN 1 ELSE 0]]
    IN  sink \in Closure(positive, {source})

\* a flow of binary64 entries: skew-symmetric, zero on the diagonal, and
\* the entries of the row of a node that is not a terminal add up to 0
DoubleFlowValid(flow) ==
    /\ \A i \in DOMAIN flow.flow_matrix : \A j \in DOMAIN flow.flow_matrix :
          flow.flow_matrix[i][j] = negative(flow.flow_matrix[j][i])
    /\ \A i \in DOMAIN flow.flow_matrix : flow.flow_matrix[i][i] = Double(0, 0)
    /\ \A i \in DOMAIN flow.flow_matrix :
          i \in SeqElems(flow.sources) \cup SeqElems(flow.sinks)
             \/ ExactOutflow(flow.flow_matrix, i) = Double(0, 0)

Returned == pc = "done" /\ result.err = NoError

\* the 2-node network with capacity c between its nodes
TwoNodes(c) == [i \in 0 .. 1 |-> [j \in 0 .. 1 |-> IF i = j THEN 0 ELSE c]]

(***************************************************************************)
(* C1: a flow returned by edmonds_karp(source, sink, maxiter) has the      *)
(* value of a minimum cut between source and sink; on [[0,3],[3,0]] from   *)
(* node 0 to node 1 the value is 3.                                        *)
(***************************************************************************)
C1_MaxFlowIsMinCut ==
    /\ (op = "edmonds_karp" /\ Returned) =>
          value(result.flow) =
              MinCut(adjacency_matrix, {args.source}, {args.sink})
    /\ pc = "idle" =>
          LET called == edmonds_karp(TwoNodes(3), 0, 1, 10)
          IN  called.err = NoError /\ value(called.flow) = 3

\* a returned flow built from two augmenting paths
C1_Witness ==
    /\ op = "edmonds_karp"
    /\ Returned
    /\ iterations = 3
    /\ value(result.flow) >= 2

(***************************************************************************)
(* C2: a flow returned by maximum_flow(sources, sinks) has, on the n x n   *)
(* matrix, the value of a minimum cut of the original network between the  *)
(* source set and the sink set, which is also the value of the flow found  *)
(* on the expanded network.                                                *)
(***************************************************************************)
C2_MultiTerminalIsMinCut ==
    (op = "maximum_flow" /\ Returned) =>
       /\ value(result.flow) =
             MinCut(adjacency_matrix, SeqElems(args.sources), SeqElems(args.sinks))
       /\ value(result.flow) = value(f)

\* a returned flow of value 2 or more out of two distinct sources
C2_Witness ==
    /\ op = "maximum_flow"
    /\ Returned
    /\ Len(result.flow.sources) = 2
    /\ \A k \in 1 .. 2 : flow_out(result.flow.flow_matrix, result.flow.sources[k]) >= 1

(***************************************************************************)
(* C3: after every pass of the edmonds_karp loop, and in every flow that   *)
(* edmonds_karp returns, the flow matrix is skew-symmetric with zero       *)
(* diagonal and every node that is not a source or sink has row sum zero.  *)
(* The capacities and the flow entries are binary64 values, as in the      *)
(* arrays of the program.                                                  *)
(***************************************************************************)
C3_FlowValidity ==
    /\ f # NoFlow => DoubleFlowValid(f)
    /\ Returned => DoubleFlowValid(result.flow)

(***************************************************************************)
(* C4: a call of edmonds_karp that reaches its loop either returns a flow  *)
(* whose residual network has no path from source to sink, or raises the   *)
(* convergence error and returns no flow; a run that used up its budget    *)
(* without the break is never a success.  The capacities and the flow      *)
(* entries are binary64 values, as in the arrays of the program.           *)
(***************************************************************************)
C4_NeverNonMaximal ==
    (op = "edmonds_karp" /\ pc = "done" /\ searched_matrix # << >>) =>
       /\ \/ /\ result.err = NoError
             /\ ~DoubleAugmentable(adjacency_matrix, result.flow.flow_matrix,
                                   args.source, args.sink)
          \/ /\ result.err = ErrNotConverged
             /\ result.flow = NoFlow
       /\ ~converged => result.err = ErrNotConverged

(***************************************************************************)
(* C5 as stated: edmonds_karp raises the convergence error only while the  *)
(* sink can still be reached in the residual network of the flow built so  *)
(* far.                                                                    *)
(***************************************************************************)
C5_Original ==
    (op = "edmonds_karp" /\ pc = "done" /\ result.err = ErrNotConverged) =>
       Augmentable(adjacency_matrix, f.flow_matrix, args.source, args.sink)

(***************************************************************************)
(* C5 amended: edmonds_karp raises the convergence error only when every   *)
(* one of its maxiter passes pushed flow (no pass found the sink           *)
(* unreached), so that at least maxiter units have been sent; a call one   *)
(* of whose passes finds the sink unreached returns its flow.              *)
(***************************************************************************)
C5_FailsOnlyWithoutBreak ==
    (op = "edmonds_karp" /\ pc = "done" /\ searched_matrix # << >>) =>
       /\ result.err = ErrNotConverged =>
             /\ ~converged
             /\ iterations = maxiter
             /\ value(f) >= maxiter
       /\ converged => result.err = NoError

\* the convergence error raised although the flow built is already maximal
C5_Witness ==
    /\ op = "edmonds_karp"
    /\ pc = "done"
    /\ result.err = ErrNotConverged
    /\ maxiter >= 1
    /\ ~Augmentable(adjacency_matrix, f.flow_matrix, args.source, args.sink)

(***************************************************************************)
(* Notions for sufficient_flow.                                            *)
(***************************************************************************)
TotalSupply == SumSeq(Values(args.sources))

TotalDemand == SumSeq(Values(args.sinks))

NonEmptyMaps == args.sources # << >> /\ args.sinks # << >>

NonNegativeMaps ==
    \A val \in SeqElems(Values(args.sources)) \cup SeqElems(Values(args.sinks)) :
       val >= 0

InBoundsMaps ==
    \A node \in SeqElems(Keys(args.sources)) \cup SeqElems(Keys(args.sinks)) :
       node \in DOMAIN adjacency_matrix

DisjointMaps == SeqElems(Keys(args.sources)) \cap SeqElems(Keys(args.sinks)) = {}

\* some flow within the capacities and the supplies delivers every demand:
\* the expanded network has no cut smaller than the total demand
Feasible ==
    LET n == n_nodes(adjacency_matrix)
    IN  MinCut(expanded_matrix(adjacency_matrix, Lookup(args.sources),
                               Lookup(args.sinks)),
               {n}, {n + 1}) >= TotalDemand

\* no search was run
NotSearched == searched_matrix = << >> /\ iterations = 0 /\ f = NoFlow

(***************************************************************************)
(* C6: a Flow returned by sufficient_flow has a value of at least the      *)
(* total demand.                                                           *)
(***************************************************************************)
C6_NoPartialResult ==
    (op = "sufficient_flow" /\ Returned) => value(result.flow) >= TotalDemand

(***************************************************************************)
(* C7: for non-empty, in-bounds, non-negative mappings and a budget that   *)
(* suffices, sufficient_flow succeeds exactly when the demand can be met,  *)
(* and then                                                                *)
(* the value of the returned Flow is the total demand; on the 2-node       *)
(* network of capacity 3, {0: 2}, {1: 2} gives value 2 and {0: 1}, {1: 2}  *)
(* raises the insufficient-supply error.                                   *)
(***************************************************************************)
C7_DecidesFeasibility ==
    /\ ( /\ op = "sufficient_flow"
         /\ pc = "done"
         /\ result.err # ErrNotConverged
         /\ NonEmptyMaps
         /\ InBoundsMaps
         /\ NonNegativeMaps ) =>
          /\ result.err = NoError <=> Feasible
          /\ result.err = NoError => value(result.flow) = TotalDemand
    /\ pc = "idle" =>
          LET met == sufficient_flow(TwoNodes(3), << << 0, 2 >> >>,
                                     << << 1, 2 >> >>, 10)
              short == sufficient_flow(TwoNodes(3), << << 0, 1 >> >>,
                                       << << 1, 2 >> >>, 10)
          IN  /\ met.err = NoError
              /\ value(met.flow) = 2
              /\ short.err = ErrInsufficientSupply

(***************************************************************************)
(* C8: in a Flow returned by sufficient_flow every demand node receives    *)
(* its demand from the network and every supply node sends at most its     *)
(* supply into the network.                                                *)
(***************************************************************************)
C8_NodeConstraints ==
    (op = "sufficient_flow" /\ Returned) =>
       /\ \A k \in 1 .. Len(args.sinks) :
             flow_in(result.flow.flow_matrix, args.sinks[k][1]) = args.sinks[k][2]
       /\ \A k \in 1 .. Len(args.sources) :
             flow_out(result.flow.flow_matrix, args.sources[k][1])
                <= args.sources[k][2]

(***************************************************************************)
(* C9 as stated: whenever the total supply is smaller than the total       *)
(* demand, sufficient_flow raises the insufficient-supply error without    *)
(* running the search, whatever the network and the budget.                *)
(***************************************************************************)
C9_Original ==
    (op = "sufficient_flow" /\ TotalSupply < TotalDemand) =>
       /\ pc = "done"
       /\ result.err = ErrInsufficientSupply
       /\ NotSearched

(***************************************************************************)
(* C9 amended: whenever both mappings are non-empty, hold no negative      *)
(* amount and the total supply is smaller than the total demand,           *)
(* sufficient_flow raises the insufficient-supply error without running    *)
(* the search, whatever the network, the node ids and the budget.          *)
(***************************************************************************)
C9_SupplyCheckedFirst ==
    ( /\ op = "sufficient_flow"
      /\ NonEmptyMaps
      /\ NonNegativeMaps
      /\ TotalSupply < TotalDemand ) =>
       /\ pc = "done"
       /\ result.err = ErrInsufficientSupply
       /\ NotSearched
       /\ \A budget \in 0 .. MaxIter :
             sufficient_flow(adjacency_matrix, args.sources, args.sinks,
                             budget).err = ErrInsufficientSupply

\* too little supply, and a node id that is out of bounds as well
C9_Witness ==
    /\ op = "sufficient_flow"
    /\ result.err = ErrInsufficientSupply
    /\ ~InBoundsMaps

(***************************************************************************)
(* C10: maximum_flow raises the terminal error whenever the two lists      *)
(* share a node or one of them is empty, whatever the network and the      *)
(* node ids, before any other check and without running the search.        *)
(***************************************************************************)
C10_TerminalsCheckedFirst ==
    ( /\ op = "maximum_flow"
      /\ \/ SeqElems(args.sources) \cap SeqElems(args.sinks) # {}
         \/ args.sources = << >>
         \/ args.sinks = << >> ) =>
       /\ pc = "done"
       /\ result.err \in {ErrNotDisjoint, ErrNoTerminals}
       /\ result.flow = NoFlow
       /\ NotSearched

\* the two lists share a node id that is out of bounds
C10_Witness ==
    /\ op = "maximum_flow"
    /\ result.err = ErrNotDisjoint
    /\ \E node \in SeqElems(args.sources) \cap SeqElems(args.sinks) :
          node \notin DOMAIN adjacency_matrix

(***************************************************************************)
(* Notions for combine and the searches.                                   *)
(***************************************************************************)
\* matrix[i][j], 0 outside the index range of the matrix
EntryOrZero(matrix, i, j) ==
    IF i \in DOMAIN matrix /\ j \in DOMAIN matrix THEN matrix[i][j] ELSE 0

\* maximum_flow([0], [1]) on `combined` minus maximum_flow([0], [1]) on
\* `current`, both with the default budget
Improvement(current, combined) ==
    value(maximum_flow(combined, << 0 >>, << 1 >>, DefaultMaxIter).flow)
       - value(maximum_flow(current, << 0 >>, << 1 >>, DefaultMaxIter).flow)

(***************************************************************************)
(* C11 as stated: with current [[0,2],[2,0]] and proposed [[0,4],[4,0]],   *)
(* the maximum flow from {0} to {1} on the combined network minus the one  *)
(* on the current network is 2.                                            *)
(***************************************************************************)
C11_Original ==
    ( /\ op = "__add__"
      /\ adjacency_matrix = TwoNodes(2)
      /\ args.other = TwoNodes(4) ) =>
       Improvement(adjacency_matrix, result.adjacency_matrix) = 2

(***************************************************************************)
(* C11 amended: with current [[0,2],[2,0]] and proposed [[0,4],[4,0]] the  *)
(* combined network is [[0,6],[6,0]] and the maximum flow from {0} to {1}  *)
(* on it minus the one on the current network is 6 - 2 = 4; for every      *)
(* 2-node current network of capacity c and proposed network of capacity   *)
(* p the difference is p.                                                  *)
(***************************************************************************)
C11_ImprovementIsProposedCapacity ==
    /\ ( /\ op = "__add__"
         /\ adjacency_matrix = TwoNodes(2)
         /\ args.other = TwoNodes(4) ) =>
          /\ result.adjacency_matrix = TwoNodes(6)
          /\ Improvement(adjacency_matrix, result.adjacency_matrix) = 4
    /\ op = "__add__" =>
          \A c \in 0 .. MaxCap : \A p \in 1 .. MaxOtherCap :
             (adjacency_matrix = TwoNodes(c) /\ args.other = TwoNodes(p)) =>
                Improvement(adjacency_matrix, result.adjacency_matrix) = p

\* the current network of capacity 2 combined with the proposal of capacity 4
C11_Witness ==
    /\ op = "__add__"
    /\ pc = "done"
    /\ adjacency_matrix = TwoNodes(2)
    /\ args.other = TwoNodes(4)
    /\ result.err = NoError

(***************************************************************************)
(* C13: a trace returned by bfs(root) has one entry per node and           *)
(* trace[root] = root; any other node x has trace[x] # -1 exactly when x   *)
(* can be reached from root along strictly positive entries, and then      *)
(* trace[x] is a reached node with a positive entry to x; a node that      *)
(* cannot be reached has trace[x] = -1.                                    *)
(***************************************************************************)
C13_BfsTrace ==
    (op = "bfs" /\ result.err = NoError) =>
       LET trace == result.path_trace
           reached == Closure(adjacency_matrix, {args.root})
       IN  /\ DOMAIN trace = NodeIds(n_nodes(adjacency_matrix))
           /\ trace[args.root] = args.root
           /\ \A x \in DOMAIN trace \ {args.root} :
                 /\ trace[x] # -1 <=> x \in reached
                 /\ x \in reached =>
                       /\ trace[x] \in reached
                       /\ adjacency_matrix[trace[x]][x] > 0
                 /\ x \notin reached => trace[x] = -1

\* a node that has no edge from the root and is reached through another node
C13_Witness ==
    /\ op = "bfs"
    /\ result.err = NoError
    /\ \E x \in DOMAIN result.path_trace :
          /\ result.path_trace[x] \notin {-1, x, args.root}
          /\ adjacency_matrix[args.root][x] = 0

(***************************************************************************)
(* C14: bfs(root) with root outside 0..n_nodes-1 raises the root error and *)
(* returns no trace; path_from_bfs(trace, dest) raises the destination     *)
(* error when dest is outside the index range of the trace and the         *)
(* unreachable error when trace[dest] = -1, and returns no path; on the    *)
(* all-zero 2-node network, root 0, dest 1 is unreachable.                 *)
(***************************************************************************)
C14_SearchErrors ==
    /\ (op = "bfs" /\ args.root \notin DOMAIN adjacency_matrix) =>
          /\ pc = "done"
          /\ result.err = ErrRootOutOfBounds
          /\ result.path_trace = << >>
    /\ (op = "path_from_bfs" /\ args.dest \notin DOMAIN args.path_trace) =>
          /\ result.err = ErrDestOutOfBounds
          /\ result.path = << >>
    /\ ( /\ op = "path_from_bfs"
         /\ args.dest \in DOMAIN args.path_trace
         /\ args.path_trace[args.dest] = -1 ) =>
          /\ result.err = ErrUnreachable
          /\ result.path = << >>
    /\ pc = "idle" =>
          LET searched == bfs(Zeros(2), 0)
          IN  /\ searched.err = NoError
              /\ searched.path_trace[1] = -1
              /\ path_from_bfs(searched.path_trace, 1).err = ErrUnreachable

\* a destination that the search of a network with edges did not reach
C14_Witness ==
    /\ op = "path_from_bfs"
    /\ result.err = ErrUnreachable
    /\ \E x \in DOMAIN args.path_trace : x # args.root /\ args.path_trace[x] # -1

(***************************************************************************)
(* C15: self + other is a Network of max(n_self, n_other) nodes whose      *)
(* entry (i, j), i # j, is the sum of the two entries, an entry outside a  *)
(* network's index range counting as 0; other + self is the same Network,  *)
(* and self plus the all-zero Network of its size is self.                 *)
(***************************************************************************)
C15_CombineIsPaddedSum ==
    op = "__add__" =>
       LET a == adjacency_matrix
           b == args.other
           c == result.adjacency_matrix
           n == IF n_nodes(a) >= n_nodes(b) THEN n_nodes(a) ELSE n_nodes(b)
       IN  /\ result.err = NoError
           /\ DOMAIN c = NodeIds(n)
           /\ \A i \in NodeIds(n) : \A j \in NodeIds(n) :
                 i # j => c[i][j] = EntryOrZero(a, i, j) + EntryOrZero(b, i, j)
           /\ __add__(b, a).adjacency_matrix = c
           /\ __add__(a, Zeros(n_nodes(a))).adjacency_matrix = a
           /\ __add__(Zeros(n_nodes(a)), a).adjacency_matrix = a

\* two networks of different sizes with an edge in common
C15_Witness ==
    /\ op = "__add__"
    /\ pc = "done"
    /\ n_nodes(adjacency_matrix) > n_nodes(args.other)
    /\ \E i \in DOMAIN args.other : \E j \in DOMAIN args.other :
          adjacency_matrix[i][j] > 0 /\ args.other[i][j] > 0
    /\ \E i \in DOMAIN adjacency_matrix :
          i \notin DOMAIN args.other /\ adjacency_matrix[0][i] > 0

(***************************************************************************)
(* C16: capacity_constraint(flow) raises the shape error when the shapes   *)
(* differ, else the skew-symmetry error when the flow matrix is not        *)
(* skew-symmetric, and for a skew-symmetric flow matrix of the network's   *)
(* shape the capacity error exactly when some |F[i][j]| exceeds A[i][j],   *)
(* returning True otherwise; 4 units sent along an edge of capacity 3      *)
(* raise the capacity error.                                               *)
(***************************************************************************)
C16_CapacityConstraintOrder ==
    /\ op = "capacity_constraint" =>
          LET F == args.flow.flow_matrix
              A == adjacency_matrix
              same_shape == n_nodes(F) = n_nodes(A)
              skew == \A i \in DOMAIN F : \A j \in DOMAIN F : F[i][j] = -F[j][i]
              exceeds == \E i \in DOMAIN F : \E j \in DOMAIN F :
                            Abs(F[i][j]) > EntryOrZero(A, i, j)
          IN  /\ ~same_shape => result.err = ErrShapesDiffer
              /\ (same_shape /\ ~skew) => result.err = ErrNotSkewSymmetric
              /\ (same_shape /\ skew) =>
                    /\ result.err = ErrExceedsCapacity <=> exceeds
                    /\ ~exceeds => result.err = NoError
    /\ pc = "idle" =>
          LET zero == zero_flow(2, << 0 >>, << 1 >>)
              sent == send_flow_along(zero.flow.flow_matrix, << 0, 1 >>, 4)
          IN  /\ sent.err = NoError
              /\ capacity_constraint(
                     TwoNodes(3),
                     [zero.flow EXCEPT !.flow_matrix = sent.flow_matrix])
                 = ErrExceedsCapacity

(***************************************************************************)
(* C17: no call of bfs, path_from_bfs, capacity_constraint, edmonds_karp,  *)
(* maximum_flow, sufficient_flow or combine, whether it succeeds or fails, *)
(* changes the adjacency matrix of the Network it is invoked on, and       *)
(* combine leaves its other operand as it was.                             *)
(***************************************************************************)
C17_MatrixNeverChanges ==
    [][ /\ adjacency_matrix' = adjacency_matrix
        /\ op' = "__add__" => result'.other_after = args'.other ]_vars

\* a combined network that differs from both operands
C17_Witness ==
    /\ op = "__add__"
    /\ pc = "done"
    /\ result.adjacency_matrix # adjacency_matrix
    /\ result.adjacency_matrix # args.other
    /\ result.other_after = args.other

(***************************************************************************)
(* C18: whenever send_flow_along(path, amount) raises (a path of fewer     *)
(* than 2 nodes, or a node id of the path out of bounds), the flow matrix  *)
(* is what it was before the call.                                         *)
(***************************************************************************)
C18_FailureLeavesFlowUnchanged ==
    (op = "send_flow_along" /\ result.err \in {ErrShortPath, ErrPathIndex}) =>
       f.flow_matrix = args.before

(***************************************************************************)
(* C19: Flow(matrix, sources, sinks) succeeds exactly when the matrix is   *)
(* square, every source and sink is in bounds, the matrix is               *)
(* skew-symmetric with zero diagonal and every node that is not a source   *)
(* or sink has zero net flow, and a failed call yields no Flow;            *)
(* [[0,1],[-1,0]] without terminals and a 2 x 3 matrix are rejected;       *)
(* zero_flow with in-bounds terminals succeeds and has value 0.            *)
(***************************************************************************)
C19_ConstructsIffValid ==
    /\ op = "Flow" =>
          LET M == args.flow_matrix
              terminals == SeqElems(args.sources) \cup SeqElems(args.sinks)
              square == \A i \in DOMAIN M : DOMAIN M[i] = DOMAIN M
              valid ==
                 /\ square
                 /\ terminals \subseteq DOMAIN M
                 /\ \A i \in DOMAIN M : \A j \in DOMAIN M : M[i][j] = -M[j][i]
                 /\ \A i \in DOMAIN M : M[i][i] = 0
                 /\ \A i \in DOMAIN M \ terminals : ColSum(M, i) - RowSum(M, i) = 0
          IN  /\ result.err = NoError <=> valid
              /\ result.err # NoError => result.flow = NoFlow
              /\ (M = Zeros(n_nodes(M)) /\ terminals \subseteq DOMAIN M) =>
                    result.err = NoError /\ value(result.flow) = 0
    /\ pc = "idle" =>
          /\ Flow([i \in 0 .. 1 |-> [j \in 0 .. 1 |-> j - i]], << >>, << >>).err
                = ErrNotConserving
          /\ Flow([i \in 0 .. 1 |-> [j \in 0 .. 2 |-> 0]], << >>, << >>).err
                = ErrFlowNotSquare

(***************************************************************************)
(* Notions for the scoring layer.                                          *)
(***************************************************************************)
\* the capacity matrix of current combined with proposed: the entrywise
\* sum over the nodes of the larger network
CombinedMatrix(current, proposed) ==
    LET n == IF n_nodes(current) >= n_nodes(proposed)
             THEN n_nodes(current) ELSE n_nodes(proposed)
    IN  [i \in NodeIds(n) |-> [j \in NodeIds(n) |->
            EntryOrZero(current, i, j) + EntryOrZero(proposed, i, j)]]

\* the engine call (or one of the two engine calls) that evaluating crit
\* makes for proposed and current raises
EngineFails(crit, proposed, current) ==
    LET combined == CombinedMatrix(current, proposed)
    IN  IF is_sufficient_problem(crit)
        THEN sufficient_flow(combined,
                             dict_zip(crit.sources, crit.supplies.values),
                             dict_zip(crit.sinks, crit.demands.values),
                             DefaultMaxIter).err # NoError
        ELSE \/ maximum_flow(combined, crit.sources, crit.sinks,
                             DefaultMaxIter).err # NoError
             \/ maximum_flow(current, crit.sources, crit.sinks,
                             DefaultMaxIter).err # NoError

(***************************************************************************)
(* C12: in maximum-flow mode, when the terminals are accepted for both     *)
(* networks, evaluate(proposed, current) returns weight times (the         *)
(* maximum flow between the criterion's sources and sinks on current +     *)
(* proposed minus the one on current); for 2-node networks of capacities c *)
(* and p between node 0 and node 1 that is weight times p, and c = 2,      *)
(* p = 4, weight 1 gives 4.                                                *)
(***************************************************************************)
C12_ScoreIsWeightedImprovement ==
    /\ (op = "evaluate" /\ ~is_sufficient_problem(args.crit)) =>
          LET crit == args.crit
              S == SeqElems(crit.sources)
              T == SeqElems(crit.sinks)
              combined == CombinedMatrix(adjacency_matrix, args.proposed)
          IN  /\ (S \cap T = {} /\ S \cup T \subseteq DOMAIN adjacency_matrix) =>
                    /\ result.err = NoError
                    /\ result.score =
                          crit.weight * (MinCut(combined, S, T)
                                            - MinCut(adjacency_matrix, S, T))
              /\ \A c \in 0 .. MaxCap : \A p \in 0 .. MaxOtherCap :
                    ( /\ adjacency_matrix = TwoNodes(c)
                      /\ args.proposed = TwoNodes(p)
                      /\ crit.sources = << 0 >>
                      /\ crit.sinks = << 1 >> ) =>
                       result.score = crit.weight * p
    /\ pc = "idle" =>
          evaluate([sources |-> << 0 >>, sinks |-> << 1 >>,
                    supplies |-> NotGiven, demands |-> NotGiven, weight |-> 1],
                   TwoNodes(4), TwoNodes(2))
             = [err |-> NoError, score |-> 4]

\* a weighted improvement between two sources and a sink of a 3-node network
C12_Witness ==
    /\ op = "evaluate"
    /\ ~is_sufficient_problem(args.crit)
    /\ Len(args.crit.sources) = 2
    /\ args.crit.weight = MaxWeight
    /\ result.err = NoError
    /\ result.score = MaxWeight
    /\ MinCut(adjacency_matrix, {0, 1}, {2}) > 0

(***************************************************************************)
(* C20: whenever maximum_flow or sufficient_flow raises for the combined   *)
(* or the current network, evaluate raises nothing and returns weight      *)
(* times -1, and CriteriaGroup.evaluate raises nothing and lists every     *)
(* essential criterion whose engine call raised among the failed ones.     *)
(***************************************************************************)
C20_FailuresBecomeScores ==
    /\ op = "evaluate" =>
          /\ result.err = NoError
          /\ EngineFails(args.crit, args.proposed, adjacency_matrix) =>
                result.score = -args.crit.weight
    /\ op = "CriteriaGroup_evaluate" =>
          /\ result.err = NoError
          /\ \A k \in 1 .. Len(args.essential) :
                EngineFails(args.essential[k], args.proposed, adjacency_matrix) =>
                   k \in SeqElems(result.failed)

\* a group whose second essential criterion alone failed, by an engine error
C20_Witness ==
    /\ op = "CriteriaGroup_evaluate"
    /\ Len(args.essential) = 2
    /\ result.failed = << 2 >>
    /\ EngineFails(args.essential[2], args.proposed, adjacency_matrix)
    /\ result.score > 0

(***************************************************************************)
(* C21: every Flow returned by edmonds_karp passes capacity_constraint of  *)
(* the network it was computed on, and every Flow returned by maximum_flow *)
(* or sufficient_flow passes capacity_constraint of the original network   *)
(* (|F[i][j]| <= A[i][j] for all i, j), for every network the constructor  *)
(* accepts, a matrix with A[i][j] # A[j][i] included.                      *)
(***************************************************************************)
C21_FlowsPassCapacityConstraint ==
    /\ Returned => capacity_constraint(adjacency_matrix, result.flow) = NoError
    /\ (pc = "done" /\ converged) =>
          capacity_constraint(searched_matrix, f) = NoError

RECURSIVE Distance(_, _, _, _)
\* the least number of edges of a path along strictly positive entries to
\* dest from the node set R, which is k edges away from the root; dest is
\* reachable
Distance(matrix, R, dest, k) ==
    IF dest \in R THEN k
    ELSE Distance(matrix,
                  R \cup {j \in DOMAIN matrix : \E i \in R : matrix[i][j] > 0},
                  dest, k + 1)

(***************************************************************************)
(* C22: for a trace returned by bfs(root) and a dest the search reached,   *)
(* path_from_bfs(trace, dest) returns a path without a repeated node that  *)
(* starts at root and ends at dest, whose consecutive nodes are joined by  *)
(* strictly positive entries, and that has the least number of edges of    *)
(* all such paths from root to dest; for dest = root it is << root >>.     *)
(***************************************************************************)
C22_ShortestSimplePath ==
    ( /\ op = "path_from_bfs"
      /\ args.dest \in DOMAIN args.path_trace
      /\ args.path_trace[args.dest] # -1 ) =>
       LET path == result.path
       IN  /\ result.err = NoError
           /\ Len(path) >= 1
           /\ path[1] = args.root
           /\ path[Len(path)] = args.dest
           /\ Cardinality(SeqElems(path)) = Len(path)
           /\ \A k \in 1 .. (Len(path) - 1) :
                 adjacency_matrix[path[k]][path[k + 1]] > 0
           /\ Len(path) - 1 = Distance(adjacency_matrix, {args.root}, args.dest, 0)
           /\ args.dest = args.root => path = << args.root >>

\* a path of one edge to a dest that a path of two edges also leads to,
\* through a node the search visits before dest
C22_Witness ==
    /\ op = "path_from_bfs"
    /\ result.err = NoError
    /\ Len(result.path) = 2
    /\ \E x \in DOMAIN adjacency_matrix :
          /\ x < args.dest
          /\ adjacency_matrix[args.root][x] > 0
          /\ adjacency_matrix[x][args.dest] > 0

(***************************************************************************)
(* C23: at the start of every pass of the edmonds_karp loop the residual   *)
(* matrix A - F has no negative entry (F[i][j] <= A[i][j] for all i, j),   *)
(* so the residual Network is always constructed: a call that has passed   *)
(* the checks of source and sink returns or raises the convergence error,  *)
(* nothing else.                                                           *)
(***************************************************************************)
C23_ResidualNeverNegative ==
    /\ pc = "loop" =>
          \A i \in DOMAIN searched_matrix : \A j \in DOMAIN searched_matrix :
             ~float_less(searched_matrix[i][j], f.flow_matrix[i][j])
    /\ (op = "edmonds_karp" /\ pc = "done" /\ searched_matrix # << >>) =>
          result.err \in {NoError, ErrNotConverged}

\* least capacity, summed without rounding, of a cut between S and T
DoubleMinCut(matrix, S, T) ==
    LET caps == {Double(CutCapacity(HiPart(matrix), X \cup S),
                        CutCapacity(LoPart(matrix), X \cup S)) :
                    X \in SUBSET (DOMAIN matrix \ (S \cup T))}
    IN  CHOOSE c \in caps : \A d \in caps : ~float_less(d, c)

(***************************************************************************)
(* C24: every augmenting step of edmonds_karp pushes a bottleneck greater  *)
(* than 0 and raises the flow value by exactly that bottleneck; with       *)
(* integer capacities the loop makes at most as many augmentations as the  *)
(* maximum-flow value, and a call whose max_iterations is greater than the *)
(* maximum-flow value returns the flow.                                    *)
(***************************************************************************)
C24_AugmentationsMakeProgress ==
    [][ LET source == args'.source
            sink == args'.sink
            maximum == DoubleMinCut(searched_matrix', {source}, {sink})
        IN  /\ (pc = "loop" /\ f' # f) =>
                  LET residual ==
                         DoubleNetwork(DoubleMatrixSub(searched_matrix,
                                                       f.flow_matrix)).adjacency_matrix
                      path_trace == bfs(entry_signs(residual), source).path_trace
                      path == path_from_bfs(path_trace, sink).path
                      augment == double_bottleneck(residual, path)
                      before == ExactOutflow(f.flow_matrix, source)
                  IN  /\ sign(augment) > 0
                      /\ ExactOutflow(f'.flow_matrix, source)
                            = Double(before.hi + augment.hi, before.lo + augment.lo)
            /\ pc' = "loop" =>
                  ~float_less(maximum,
                              Double(0, iterations' - IF converged' THEN 1 ELSE 0))
            /\ ( /\ pc' = "done"
                 /\ searched_matrix' # << >>
                 /\ float_less(maximum, maxiter') ) =>
                  result'.err = NoError
      ]_vars

\* the call raised a TubePlanningError
RaisedTubePlanningError(err) == err \notin {NoError, ValueErrorEmptyMin}

(***************************************************************************)
(* C25: the module-level edmonds_karp(G, s, t, mi) and the method          *)
(* G.edmonds_karp(s, t, mi) agree for every network, every s and t (equal  *)
(* or out of bounds included) and every mi: both return flows with the     *)
(* same flow matrix, sources and sinks, or both raise a TubePlanningError. *)
(***************************************************************************)
C25_FunctionMatchesMethod ==
    op = "module_edmonds_karp" =>
       LET method == edmonds_karp(adjacency_matrix, args.s, args.t, args.mi)
       IN  \/ /\ result.err = NoError
              /\ method.err = NoError
              /\ result.flow = method.flow
           \/ /\ RaisedTubePlanningError(result.err)
              /\ RaisedTubePlanningError(method.err)

====
